---- MODULE Spec2Model ----
(***************************************************************************)
(* Model of the WikiWho authorship engine (src/src/algorithm.rs) and of    *)
(* the text utilities it consumes (src/src/utils.rs).                      *)
(*                                                                         *)
(* A text is a sequence of characters (one-character strings) followed by  *)
(* `pad` trailing spaces, so that texts of more than 1000 code points stay *)
(* cheap.  Pointers are the 0-based arena indices of the source; the       *)
(* immutable payload an Arc pointer carries (value, hash) is kept in the   *)
(* arena slot of that index.  A blake3 hash is modelled by the hashed      *)
(* text itself (no collisions).                                            *)
(***************************************************************************)
EXTENDS Integers, Sequences, FiniteSets, TLC

(***************************************************************************)
(* Bounds and program constants                                            *)
(***************************************************************************)
\* number of input revisions of a page
MaxRevs == 3
\* number of input revisions of a page whose IDs come in any order
MaxIdRevs == 4
\* number of input revisions of a long page
MaxLongRevs == 4

PREVIOUS_LENGTH == 1000
CURR_LENGTH == 1000
\* CHANGE_PERCENTAGE = -0.40, kept as a percentage
CHANGE_PERCENTAGE_PCT == -40
\* UNMATCHED_PARAGRAPH = 0.0
UNMATCHED_PARAGRAPH == 0
\* TOKEN_DENSITY_LIMIT = 20.0
TOKEN_DENSITY_LIMIT == 20

\* Option<T>: <<>> is None and <<x>> is Some(x) (also its as_slice())
None == <<>>
Some(x) == <<x>>

(***************************************************************************)
(* Sequence helpers                                                        *)
(***************************************************************************)
Last(s) == s[Len(s)]

EmptyMap == [k \in {} |-> <<>>]

\* entry(k).and_modify(push).or_insert_with(single) on a by-hash map
MapPush(m, k, v) ==
    IF k \in DOMAIN m THEN [m EXCEPT ![k] = Append(@, v)]
    ELSE [x \in (DOMAIN m) \cup {k} |-> IF x = k THEN <<v>> ELSE m[x]]

\* get(k).cloned().unwrap_or_default()
MapGet(m, k) == IF k \in DOMAIN m THEN m[k] ELSE <<>>

\* concatenation of a sequence of sequences
RECURSIVE Flatten(_)
Flatten(ss) ==
    IF Len(ss) = 0 THEN <<>>
    ELSE IF Len(ss) = 1 THEN ss[1]
    ELSE Flatten(SubSeq(ss, 1, Len(ss) \div 2))
           \o Flatten(SubSeq(ss, Len(ss) \div 2 + 1, Len(ss)))

Range(s) == {s[i] : i \in 1..Len(s)}

\* TRUE.  TLC evaluates an argument where it is first used; a loop that
\* carries a value from step to step asks for it at the start of each step,
\* and so the steps are evaluated one after the other, not one inside the other.
Evaluated(v) == v = v

(***************************************************************************)
(* String functions of the standard library, on character sequences.       *)
(* Each one looks at its argument first (the test for the empty string):   *)
(* TLC evaluates an argument where it is first used, and a chain of string *)
(* functions is evaluated at a small depth that way.                       *)
(***************************************************************************)
StartsWithAt(s, i, pat) ==
    /\ i + Len(pat) - 1 <= Len(s)
    /\ \A k \in 1..Len(pat) : s[i + k - 1] = pat[k]

Contains(s, pat) == \E i \in 1..Len(s) : StartsWithAt(s, i, pat)

\* the matches of pat in s that str::replace, str::split and str::contains
\* find: the leftmost one, then the leftmost one after its end, and so on
Matches(s, pat) ==
    LET found[i \in 1..Len(s)] ==
            /\ StartsWithAt(s, i, pat)
            /\ \A j \in 1..(Len(pat) - 1) : i - j < 1 \/ ~found[i - j]
    IN  SelectSeq([i \in 1..Len(s) |-> i], LAMBDA i : found[i])

\* whether position i of s is inside one of the matches of length n
InMatch(matches, n, i) == \E k \in 1..Len(matches) : matches[k] <= i /\ i < matches[k] + n

\* str::replace: leftmost non-overlapping occurrences
ReplaceAt(s, matches, n, to) ==
    Flatten([i \in 1..Len(s) |->
                IF \E k \in 1..Len(matches) : matches[k] = i THEN to
                ELSE IF InMatch(matches, n, i) THEN <<>>
                ELSE <<s[i]>>])

Replace(s, from, to) ==
    IF s = <<>> THEN <<>> ELSE ReplaceAt(s, Matches(s, from), Len(from), to)

\* str::split: the pieces between leftmost non-overlapping separators,
\* empty pieces included
SplitAt(s, matches, n) ==
    [k \in 1..(Len(matches) + 1) |->
        SubSeq(s, IF k = 1 THEN 1 ELSE matches[k - 1] + n,
                  IF k = Len(matches) + 1 THEN Len(s) ELSE matches[k] - 1)]

Split(s, sep) == IF s = <<>> THEN <<s>> ELSE SplitAt(s, Matches(s, sep), Len(sep))

\* [String]::join
Join(ss, sep) ==
    IF ss = <<>> THEN <<>> ELSE
    Flatten([i \in 1..(2 * Len(ss) - 1) |-> IF i % 2 = 1 THEN ss[(i + 1) \div 2] ELSE sep])

\* while text.contains(from) { text = text.replace(from, to) }
RECURSIVE ReplaceWhile(_, _, _)
ReplaceWhile(s, from, to) ==
    IF s # <<>> /\ Contains(s, from) THEN ReplaceWhile(Replace(s, from, to), from, to)
    ELSE s

IsWhitespace(c) == c \in {" ", "\n"}

RECURSIVE trim_end_in_place(_)
trim_end_in_place(s) ==
    IF s # <<>> /\ IsWhitespace(Last(s))
    THEN trim_end_in_place(SubSeq(s, 1, Len(s) - 1)) ELSE s

RECURSIVE trim_start_in_place(_)
trim_start_in_place(s) ==
    IF s # <<>> /\ IsWhitespace(Head(s))
    THEN trim_start_in_place(Tail(s)) ELSE s

trim_in_place(s) == trim_start_in_place(trim_end_in_place(s))

\* char::to_lowercase: "I." stands for U+0130, whose lowercase is the two
\* code points "i" and "*" (U+0307)
LowerChar(c) ==
    CASE c = "A" -> <<"a">>
      [] c = "X" -> <<"x">>
      [] c = "I." -> <<"i", "*.">>
      [] OTHER -> <<c>>

to_lowercase(s) ==
    IF s = <<>> THEN <<>> ELSE Flatten([i \in 1..Len(s) |-> LowerChar(s[i])])

(***************************************************************************)
(* Tokenizer utilities (utils.rs).  The characters of the model's texts    *)
(* are letters, space, newline, ";" and "[": the substitutions of the      *)
(* source for other characters (\r, <table>, {|, ". ", "? ", <ref, URLs,   *)
(* the other symbols) find nothing in such a text and are left out.        *)
(***************************************************************************)
split_into_paragraphs(text) == Split(text, <<"\n", "\n">>)

Marker == <<"@", "@", "@", "@">>

split_into_sentences(text) ==
    LET t1 == Replace(text, <<"\n">>, <<"\n">> \o Marker)
        t2 == Replace(t1, <<";", " ">>, <<";">> \o Marker)
        t3 == ReplaceWhile(t2, Marker \o Marker, Marker)
    IN  Split(t3, Marker)

Bars == <<"|", "|">>

split_into_tokens(text) ==
    LET t1 == Replace(text, <<"\n">>, Bars)
        t2 == Replace(t1, <<" ">>, Bars)
        t3 == Replace(t2, <<";">>, Bars \o <<";">> \o Bars)
        t4 == Replace(t3, <<"[">>, Bars \o <<"[">> \o Bars)
        t5 == Replace(t4, <<"[">> \o Bars \o Bars \o <<"[">>, <<"[", "[">>)
        t6 == ReplaceWhile(t5, Bars \o Bars, Bars)
    IN  SelectSeq(Split(t6, Bars), LAMBDA w : w # <<>>)

(***************************************************************************)
(* The two tokenizers of utils.rs in full, as far as the characters below  *)
(* go: "ae" stands for U+00E6, the character of the placeholder that       *)
(* split_into_tokens_naive puts in the place of a pipe.                    *)
(***************************************************************************)
Placeholder == <<"ae", "ae", "ae", "ae">>

\* the symbols of the naive tokenizer among the characters of the model, in
\* the order of the source
symbols == <<";", "!", "-", "[", "]", "{", "}", "<", ">">>

\* for symbol in symbols { text = text.replace(symbol, "||symbol||") }
RECURSIVE SurroundSymbols(_, _)
SurroundSymbols(text, syms) ==
    IF Evaluated(text) /\ syms = <<>> THEN text
    ELSE SurroundSymbols(Replace(text, <<Head(syms)>>, Bars \o <<Head(syms)>> \o Bars),
                         Tail(syms))

split_into_tokens_naive(text) ==
    LET t1 == Replace(text, <<"|">>, Bars \o Placeholder \o Bars)
        t2 == Replace(t1, <<"\n">>, Bars)
        t3 == Replace(t2, <<" ">>, Bars)
        t4 == SurroundSymbols(t3, symbols)
        t5 == Replace(t4, <<"[">> \o Bars \o Bars \o <<"[">>, <<"[", "[">>)
        t6 == Replace(t5, <<"]">> \o Bars \o Bars \o <<"]">>, <<"]", "]">>)
        t7 == Replace(t6, <<"{">> \o Bars \o Bars \o <<"{">>, <<"{", "{">>)
        t8 == Replace(t7, <<"}">> \o Bars \o Bars \o <<"}">>, <<"}", "}">>)
        t9 == Replace(t8, <<"<">> \o Bars \o Bars \o <<"!">> \o Bars \o Bars \o <<"-">>
                            \o Bars \o Bars \o <<"-">> \o Bars,
                      Bars \o <<"<", "!", "-", "-">> \o Bars)
        t10 == Replace(t9, Bars \o <<"-">> \o Bars \o Bars \o <<"-">> \o Bars \o Bars \o <<">">>,
                       Bars \o <<"-", "-", ">">> \o Bars)
        t11 == ReplaceWhile(t10, Bars \o Bars, Bars)
        ws == SelectSeq(Split(t11, Bars), LAMBDA w : w # <<>>)
    IN  [i \in 1..Len(ws) |-> IF ws[i] = Placeholder THEN <<"|">> ELSE ws[i]]

\* the patterns of the automaton among the characters of the model, in the
\* order of the source: separators, composite symbols, single symbols
PATTERNS ==
    << <<" ">>, <<"\n">>, <<"<", "!", "-", "-">>, <<"-", "-", ">">>, <<"[", "[">>,
       <<"]", "]">>, <<"{", "{">>, <<"}", "}">>, <<"|">>, <<";">>, <<"!">>, <<"-">>,
       <<"[">>, <<"]">>, <<"{">>, <<"}">>, <<"<">>, <<">">> >>

\* the ID of the first pattern that is a symbol (IDs count from 0)
FIRST_SYMBOL == 2

NoPattern == -1

\* MatchKind::LeftmostFirst at one position: the ID of the first pattern of
\* the list that matches there, or NoPattern
first_pattern_at(text, i) ==
    LET ks == {k \in 1..Len(PATTERNS) : StartsWithAt(text, i, PATTERNS[k])}
    IN  IF ks = {} THEN NoPattern ELSE (CHOOSE k \in ks : \A other \in ks : k <= other) - 1

\* AHO_CORASICK.find_iter(text) from the position on: the leftmost match,
\* then the leftmost match after its end, and so on
RECURSIVE find_iter(_, _)
find_iter(text, from) ==
    IF from > Len(text) THEN <<>>
    ELSE IF first_pattern_at(text, from) = NoPattern THEN find_iter(text, from + 1)
    ELSE LET pattern == first_pattern_at(text, from)
             end == from + Len(PATTERNS[pattern + 1])
         IN  <<[start |-> from, end |-> end, pattern |-> pattern]>> \o find_iter(text, end)

\* the loop over the matches: the word before the match, then the match
\* itself unless it is a separator
RECURSIVE collect_tokens(_, _, _, _)
collect_tokens(text, ms, last_end, res) ==
    IF ms = <<>>
    THEN IF last_end <= Len(text) THEN Append(res, SubSeq(text, last_end, Len(text))) ELSE res
    ELSE LET m == Head(ms)
             with_word == IF m.start > last_end
                          THEN Append(res, SubSeq(text, last_end, m.start - 1)) ELSE res
             with_symbol == IF m.pattern >= FIRST_SYMBOL
                            THEN Append(with_word, SubSeq(text, m.start, m.end - 1))
                            ELSE with_word
         IN  collect_tokens(text, Tail(ms), m.end, with_symbol)

split_into_tokens_corasick(text) == collect_tokens(text, find_iter(text, 1), 1, <<>>)

(***************************************************************************)
(* The two paragraph splitters of utils.rs in full.  A tag is the sequence *)
(* of its characters.                                                      *)
(***************************************************************************)
Markup ==
    [table |-> <<"<", "t", "a", "b", "l", "e", ">">>,
     table_end |-> <<"<", "/", "t", "a", "b", "l", "e", ">">>,
     tr |-> <<"<", "t", "r", ">">>,
     tr_end |-> <<"<", "/", "t", "r", ">">>,
     blank |-> <<"\n", "\n">>]

split_into_paragraphs_naive(text) ==
    LET t1 == Replace(text, <<"\r", "\n">>, <<"\n">>)
        t2 == Replace(t1, <<"\r">>, <<"\n">>)
        t3 == Replace(t2, Markup.table, Markup.blank \o Markup.table)
        t4 == Replace(t3, Markup.table_end, Markup.table_end \o Markup.blank)
        t5 == Replace(t4, Markup.tr, Markup.blank \o Markup.tr)
        t6 == Replace(t5, Markup.tr_end, Markup.tr_end \o Markup.blank)
        t7 == Replace(t6, <<"{", "|">>, Markup.blank \o <<"{", "|">>)
        t8 == Replace(t7, <<"|", "}">>, <<"|", "}">> \o Markup.blank)
        t9 == Replace(t8, <<"|", "-", "\n">>, Markup.blank \o <<"|", "-", "\n">>)
    IN  Split(t9, Markup.blank)

\* str_replace_opt_ext handing the input back as the scratch buffer without
\* clearing it
str_replace_opt_uncleared(input, from, to, scratch_buffer) ==
    IF input = <<>> \/ Matches(input, from) = <<>>
    THEN <<input, scratch_buffer>>
    ELSE <<scratch_buffer \o ReplaceAt(input, Matches(input, from), Len(from), to), input>>

\* the pair (text, scratch buffer) returned: without a match the input and
\* the buffer as they came; with one the buffer, to which the pieces between
\* the matches, the replacements and the rest were pushed, and the cleared
\* input
str_replace_opt_ext(input, from, to, scratch_buffer) ==
    LET last_end == IF input = <<>> \/ Matches(input, from) = <<>> THEN 0
                    ELSE Last(Matches(input, from)) - 1 + Len(from)
    IN  IF last_end = 0
        THEN <<input, scratch_buffer>>
        ELSE <<scratch_buffer \o ReplaceAt(input, Matches(input, from), Len(from), to), <<>> >>

\* str_replace_opt applied to the pair a former call returned
str_replace_opt(pair, from, to) == str_replace_opt_ext(pair[1], from, to, pair[2])

\* the list returned and the two scratch buffers as the call leaves them
split_into_paragraphs_optimized(text, scratch_buffers) ==
    LET p0 == <<scratch_buffers[1] \o text, scratch_buffers[2]>>
        p1 == str_replace_opt(p0, <<"\r", "\n">>, <<"\n">>)
        p2 == str_replace_opt(p1, <<"\r">>, <<"\n">>)
        p3 == str_replace_opt(p2, Markup.table, Markup.blank \o Markup.table)
        p4 == str_replace_opt(p3, Markup.table_end, Markup.table_end \o Markup.blank)
        p5 == str_replace_opt(p4, Markup.tr, Markup.blank \o Markup.tr)
        p6 == str_replace_opt(p5, Markup.tr_end, Markup.tr_end \o Markup.blank)
        p7 == str_replace_opt(p6, <<"{", "|">>, Markup.blank \o <<"{", "|">>)
        p8 == str_replace_opt(p7, <<"|", "}">>, <<"|", "}">> \o Markup.blank)
        p9 == str_replace_opt(p8, <<"|", "-", "\n">>, Markup.blank \o <<"|", "-", "\n">>)
    IN  [result |-> Split(p9[1], Markup.blank), scratch_buffers |-> << <<>>, p9[2] >>]

(***************************************************************************)
(* Arena records.  `value` is the payload of the pointer with that index.  *)
(***************************************************************************)
NoPtr == -1

RevisionAnalysis_counted ==
    [paragraphs_by_hash |-> EmptyMap, paragraphs_ordered |-> <<>>, original_adds |-> 1]

RevisionAnalysis_default ==
    [paragraphs_by_hash |-> EmptyMap, paragraphs_ordered |-> <<>>, original_adds |-> 0]

ParagraphAnalysis_default(text) ==
    [value |-> text, sentences_by_hash |-> EmptyMap, sentences_ordered |-> <<>>,
     matched_in_current |-> FALSE]

SentenceAnalysis_default(text) ==
    [value |-> text, words_ordered |-> <<>>, matched_in_current |-> FALSE]

\* WordAnalysis::new with latest_rev_id left at 0
WordAnalysis_unseen(word, origin_rev_id) ==
    [value |-> word, origin_rev_id |-> origin_rev_id, latest_rev_id |-> 0,
     matched_in_current |-> FALSE, inbound |-> <<>>, outbound |-> <<>>]

WordAnalysis_new(word, origin_rev_id) ==
    [value |-> word, origin_rev_id |-> origin_rev_id, latest_rev_id |-> origin_rev_id,
     matched_in_current |-> FALSE, inbound |-> <<>>, outbound |-> <<>>]

\* RevisionPointer::new(0, RevisionImmutables::dummy())
RevisionImmutables_dummy == [index |-> 0, id |-> 0, length |-> 0, text |-> <<>>]

(***************************************************************************)
(* WordAnalysis                                                            *)
(***************************************************************************)
\* maybe_push_inbound without the comparison of latest_rev_id
always_push_inbound(w, vandalism, revision_id_curr, revision_id_prev, push) ==
    IF /\ ~vandalism
       /\ w.matched_in_current
       /\ (w.outbound = <<>> \/ Last(w.outbound) # revision_id_curr)
    THEN [w EXCEPT !.inbound = IF push THEN Append(@, revision_id_curr) ELSE @,
                   !.latest_rev_id = revision_id_curr]
    ELSE w

maybe_push_inbound(w, vandalism, revision_id_curr, revision_id_prev, push) ==
    IF /\ ~vandalism
       /\ w.matched_in_current
       /\ (w.outbound = <<>> \/ Last(w.outbound) # revision_id_curr)
    THEN [w EXCEPT !.inbound = IF push /\ Some(w.latest_rev_id) # revision_id_prev
                                THEN Append(@, revision_id_curr) ELSE @,
                   !.latest_rev_id = revision_id_curr]
    ELSE w

push_outbound_first(w, revision_id_curr) ==
    IF ~w.matched_in_current
    THEN [w EXCEPT !.outbound = <<revision_id_curr>> \o @] ELSE w

maybe_push_outbound(w, revision_id_curr) ==
    IF ~w.matched_in_current
    THEN [w EXCEPT !.outbound = Append(@, revision_id_curr)] ELSE w

(***************************************************************************)
(* Word iteration.  ptrs is the sequence of word pointers in the order the *)
(* nested loops of the source visit them (a pointer may occur repeatedly). *)
(***************************************************************************)
iterate_words_in_sentences(a, sents) ==
    Flatten([i \in 1..Len(sents) |-> a.sentences[sents[i] + 1].words_ordered])

iterate_words_in_paragraphs(a, paras) ==
    Flatten([i \in 1..Len(paras) |->
                iterate_words_in_sentences(a, a.paragraphs[paras[i] + 1].sentences_ordered)])

\* utils::iterate_revision_tokens
iterate_revision_tokens(a, revision) ==
    iterate_words_in_paragraphs(a, a.revisions[revision.index + 1].paragraphs_ordered)

RECURSIVE PushOutboundEach(_, _, _)
PushOutboundEach(words, ptrs, revision_id_curr) ==
    IF Evaluated(words) /\ ptrs = <<>> THEN words
    ELSE PushOutboundEach(
             [words EXCEPT ![Head(ptrs) + 1] = maybe_push_outbound(@, revision_id_curr)],
             Tail(ptrs), revision_id_curr)

\* handle_word leaving the word of a vandalised revision as it is
handle_word_unless_vandalism(w, vandalism, revision_id_curr, revision_id_prev, push_inbound) ==
    IF vandalism THEN w
    ELSE [maybe_push_inbound(w, vandalism, revision_id_curr, revision_id_prev, push_inbound)
             EXCEPT !.matched_in_current = FALSE]

\* the closure handle_word of determine_authorship, applied to each pointer
handle_word(w, vandalism, revision_id_curr, revision_id_prev, push_inbound) ==
    [maybe_push_inbound(w, vandalism, revision_id_curr, revision_id_prev, push_inbound)
        EXCEPT !.matched_in_current = FALSE]

RECURSIVE HandleEach(_, _, _, _, _, _)
HandleEach(words, ptrs, vandalism, revision_id_curr, revision_id_prev, push_inbound) ==
    IF Evaluated(words) /\ ptrs = <<>> THEN words
    ELSE HandleEach(
             [words EXCEPT ![Head(ptrs) + 1] =
                 handle_word(@, vandalism, revision_id_curr, revision_id_prev, push_inbound)],
             Tail(ptrs), vandalism, revision_id_curr, revision_id_prev, push_inbound)

FlagWords(words, ptrs) ==
    [i \in 1..Len(words) |->
        IF (i - 1) \in Range(ptrs) THEN [words[i] EXCEPT !.matched_in_current = TRUE]
        ELSE words[i]]

(***************************************************************************)
(* ParasentPointer, for K = "paragraph" (parent: a revision pointer) and   *)
(* K = "sentence" (parent: a paragraph pointer)                            *)
(***************************************************************************)
IS_SENTENCE(K) == K = "sentence"

ArenaLen(a, K) == IF IS_SENTENCE(K) THEN Len(a.sentences) ELSE Len(a.paragraphs)

\* Pointer::value of the parent
ParentValue(a, K, parent) ==
    IF IS_SENTENCE(K) THEN a.paragraphs[parent + 1].value ELSE parent.text

\* allocate_new_in_parent putting the new fragment in front of the arena
allocate_in_front_in_parent(a, K, parent, text) ==
    IF IS_SENTENCE(K)
    THEN LET ptr == Len(a.sentences)
         IN  [a EXCEPT !.sentences = <<SentenceAnalysis_default(text)>> \o @,
                       !.paragraphs[parent + 1].sentences_by_hash = MapPush(@, text, ptr),
                       !.paragraphs[parent + 1].sentences_ordered = Append(@, ptr)]
    ELSE LET ptr == Len(a.paragraphs)
         IN  [a EXCEPT !.paragraphs = <<ParagraphAnalysis_default(text)>> \o @,
                       !.revisions[parent.index + 1].paragraphs_by_hash = MapPush(@, text, ptr),
                       !.revisions[parent.index + 1].paragraphs_ordered = Append(@, ptr)]

allocate_new_in_parent(a, K, parent, text) ==
    IF IS_SENTENCE(K)
    THEN LET ptr == Len(a.sentences)
         IN  [a EXCEPT !.sentences = Append(@, SentenceAnalysis_default(text)),
                       !.paragraphs[parent + 1].sentences_by_hash = MapPush(@, text, ptr),
                       !.paragraphs[parent + 1].sentences_ordered = Append(@, ptr)]
    ELSE LET ptr == Len(a.paragraphs)
         IN  [a EXCEPT !.paragraphs = Append(@, ParagraphAnalysis_default(text)),
                       !.revisions[parent.index + 1].paragraphs_by_hash = MapPush(@, text, ptr),
                       !.revisions[parent.index + 1].paragraphs_ordered = Append(@, ptr)]

\* store_in_parent without the entry of the by-hash map
store_in_list_of_parent(a, K, ptr, curr) ==
    IF IS_SENTENCE(K)
    THEN [a EXCEPT !.paragraphs[curr + 1].sentences_ordered = Append(@, ptr)]
    ELSE [a EXCEPT !.revisions[curr.index + 1].paragraphs_ordered = Append(@, ptr)]

store_in_parent(a, K, ptr, curr) ==
    IF IS_SENTENCE(K)
    THEN [a EXCEPT !.paragraphs[curr + 1].sentences_by_hash =
                        MapPush(@, a.sentences[ptr + 1].value, ptr),
                   !.paragraphs[curr + 1].sentences_ordered = Append(@, ptr)]
    ELSE [a EXCEPT !.revisions[curr.index + 1].paragraphs_by_hash =
                        MapPush(@, a.paragraphs[ptr + 1].value, ptr),
                   !.revisions[curr.index + 1].paragraphs_ordered = Append(@, ptr)]

iterate_words(a, K, ptr) ==
    IF IS_SENTENCE(K) THEN iterate_words_in_sentences(a, <<ptr>>)
    ELSE iterate_words_in_paragraphs(a, <<ptr>>)

all_parasents_in_parents(a, K, prevs) ==
    Flatten([i \in 1..Len(prevs) |->
        IF IS_SENTENCE(K) THEN a.paragraphs[prevs[i] + 1].sentences_ordered
        ELSE a.revisions[prevs[i].index + 1].paragraphs_ordered])

find_in_parents(a, K, prevs, hash) ==
    Flatten([i \in 1..Len(prevs) |->
        IF IS_SENTENCE(K) THEN MapGet(a.paragraphs[prevs[i] + 1].sentences_by_hash, hash)
        ELSE MapGet(a.revisions[prevs[i].index + 1].paragraphs_by_hash, hash)])

\* a lookup that finds nothing in the revisions before the previous one
find_in_no_previous_revision(a, K, hash) == <<>>

find_in_any_previous_revision(a, K, hash) ==
    IF IS_SENTENCE(K) THEN MapGet(a.sentences_ht, hash) ELSE MapGet(a.paragraphs_ht, hash)

TrimmedNonEmpty(pieces) ==
    SelectSeq([i \in 1..Len(pieces) |-> trim_in_place(pieces[i])], LAMBDA s : s # <<>>)

split_into_parasents(K, text) ==
    IF IS_SENTENCE(K)
    THEN LET sents == TrimmedNonEmpty(split_into_sentences(text))
         IN  [i \in 1..Len(sents) |-> Join(split_into_tokens(sents[i]), <<" ">>)]
    ELSE TrimmedNonEmpty(split_into_paragraphs(text))

\* a match that leaves the flags of the children alone
mark_no_children_matched(a, K, ptr) == a

mark_all_children_matched(a, K, ptr) ==
    IF IS_SENTENCE(K)
    THEN [a EXCEPT !.words = FlagWords(@, a.sentences[ptr + 1].words_ordered)]
    ELSE LET sents == a.paragraphs[ptr + 1].sentences_ordered
         IN  [a EXCEPT !.sentences = [i \in 1..Len(@) |->
                              IF (i - 1) \in Range(sents)
                              THEN [@[i] EXCEPT !.matched_in_current = TRUE] ELSE @[i]],
                       !.words = FlagWords(@, iterate_words_in_paragraphs(a, <<ptr>>))]

matched_in_current(a, K, ptr) ==
    IF IS_SENTENCE(K) THEN a.sentences[ptr + 1].matched_in_current
    ELSE a.paragraphs[ptr + 1].matched_in_current

set_matched_in_current(a, K, ptr, value) ==
    IF IS_SENTENCE(K) THEN [a EXCEPT !.sentences[ptr + 1].matched_in_current = value]
    ELSE [a EXCEPT !.paragraphs[ptr + 1].matched_in_current = value]

(***************************************************************************)
(* find_matching_parasent: the loop over the candidates from index i on.   *)
(* Returns the analysis, matched_parasents_prev and the pointer found      *)
(* (NoPtr for None).                                                       *)
(***************************************************************************)
\* find_matching_parasent_from that passes over a candidate with all words
\* flagged without flagging or recording it
RECURSIVE find_skipping_matched_from(_, _, _, _, _)
find_skipping_matched_from(a, K, prev_parasents, i, matched_parasents_prev) ==
    IF Evaluated(a) /\ i > Len(prev_parasents)
    THEN [a |-> a, matched |-> matched_parasents_prev, found |-> NoPtr]
    ELSE LET ptr == prev_parasents[i] IN
         IF matched_in_current(a, K, ptr)
         THEN find_skipping_matched_from(a, K, prev_parasents, i + 1, matched_parasents_prev)
         ELSE LET ws == iterate_words(a, K, ptr)
                  matched_one == \E k \in 1..Len(ws) : a.words[ws[k] + 1].matched_in_current
              IN  IF ~matched_one
                  THEN [a |-> set_matched_in_current(a, K, ptr, TRUE),
                        matched |-> Append(matched_parasents_prev, ptr),
                        found |-> ptr]
                  ELSE find_skipping_matched_from(a, K, prev_parasents, i + 1,
                                                  matched_parasents_prev)

RECURSIVE find_matching_parasent_from(_, _, _, _, _)
find_matching_parasent_from(a, K, prev_parasents, i, matched_parasents_prev) ==
    IF Evaluated(a) /\ i > Len(prev_parasents)
    THEN [a |-> a, matched |-> matched_parasents_prev, found |-> NoPtr]
    ELSE LET ptr == prev_parasents[i] IN
         IF matched_in_current(a, K, ptr)
         THEN find_matching_parasent_from(a, K, prev_parasents, i + 1, matched_parasents_prev)
         ELSE LET ws == iterate_words(a, K, ptr)
                  matched_one == \E k \in 1..Len(ws) : a.words[ws[k] + 1].matched_in_current
                  matched_all == \A k \in 1..Len(ws) : a.words[ws[k] + 1].matched_in_current
              IN  IF ~matched_one
                  THEN [a |-> set_matched_in_current(a, K, ptr, TRUE),
                        matched |-> Append(matched_parasents_prev, ptr),
                        found |-> ptr]
                  ELSE IF matched_all
                  THEN find_matching_parasent_from(
                           set_matched_in_current(a, K, ptr, TRUE), K, prev_parasents,
                           i + 1, Append(matched_parasents_prev, ptr))
                  ELSE find_matching_parasent_from(a, K, prev_parasents, i + 1,
                                                   matched_parasents_prev)

\* find_matching_parasent that accepts the first candidate as it is
find_first_parasent(a, K, prev_parasents, matched_parasents_prev) ==
    IF prev_parasents = <<>>
    THEN [a |-> a, matched |-> matched_parasents_prev, found |-> NoPtr]
    ELSE [a |-> set_matched_in_current(a, K, prev_parasents[1], TRUE),
          matched |-> Append(matched_parasents_prev, prev_parasents[1]),
          found |-> prev_parasents[1]]

find_matching_parasent(a, K, prev_parasents, matched_parasents_prev) ==
    find_matching_parasent_from(a, K, prev_parasents, 1, matched_parasents_prev)

(***************************************************************************)
(* analyse_parasents_in_revgraph.  st carries the analysis and the result  *)
(* vectors through the loops.                                              *)
(***************************************************************************)
\* the fragment was found (r.found) or is new: store it or allocate it
attach_parasent(st, K, parent_curr, parasent_text, r) ==
    IF r.found # NoPtr
    THEN [st EXCEPT
             !.a = store_in_parent(mark_all_children_matched(r.a, K, r.found),
                                   K, r.found, parent_curr),
             !.matched_parasents_prev = r.matched,
             !.total_parasents = @ + 1]
    ELSE [st EXCEPT
             !.a = allocate_new_in_parent(r.a, K, parent_curr, parasent_text),
             !.unmatched_parasents_curr = Append(@, ArenaLen(r.a, K)),
             !.matched_parasents_prev = r.matched,
             !.total_parasents = @ + 1]

\* not found in the previous revision: check if it is in an older revision
find_in_older(K, hash_curr, r) ==
    IF r.found = NoPtr
    THEN find_matching_parasent(r.a, K, find_in_any_previous_revision(r.a, K, hash_curr),
                                r.matched)
    ELSE r

\* match_parasent with the global index consulted before the previous parents
match_parasent_index_first(st, K, parent_curr, unmatched_revgraphs_prev, parasent_text) ==
    attach_parasent(st, K, parent_curr, parasent_text,
        LET r == find_matching_parasent(st.a, K,
                     find_in_any_previous_revision(st.a, K, parasent_text),
                     st.matched_parasents_prev)
        IN  IF r.found = NoPtr
            THEN find_matching_parasent(r.a, K,
                     find_in_parents(r.a, K, unmatched_revgraphs_prev, parasent_text),
                     r.matched)
            ELSE r)

\* body of the inner loop, for one fragment text of one current parent
match_parasent(st, K, parent_curr, unmatched_revgraphs_prev, parasent_text) ==
    attach_parasent(st, K, parent_curr, parasent_text,
        find_in_older(K, parasent_text,
            find_matching_parasent(st.a, K,
                find_in_parents(st.a, K, unmatched_revgraphs_prev, parasent_text),
                st.matched_parasents_prev)))

RECURSIVE match_parasents_of_parent(_, _, _, _, _)
match_parasents_of_parent(st, K, parent_curr, unmatched_revgraphs_prev, parasents) ==
    IF Evaluated(st) /\ parasents = <<>> THEN st
    ELSE match_parasents_of_parent(
             match_parasent(st, K, parent_curr, unmatched_revgraphs_prev, Head(parasents)),
             K, parent_curr, unmatched_revgraphs_prev, Tail(parasents))

RECURSIVE match_parents(_, _, _, _)
match_parents(st, K, unmatched_revgraphs_curr, unmatched_revgraphs_prev) ==
    IF Evaluated(st) /\ unmatched_revgraphs_curr = <<>> THEN st
    ELSE LET parent_curr == Head(unmatched_revgraphs_curr)
         IN  match_parents(
                 match_parasents_of_parent(st, K, parent_curr, unmatched_revgraphs_prev,
                     split_into_parasents(K, ParentValue(st.a, K, parent_curr))),
                 K, Tail(unmatched_revgraphs_curr), unmatched_revgraphs_prev)

\* the closing loop: the fragments of the previous parents that are not flagged
RECURSIVE collect_unmatched_prev(_, _, _)
collect_unmatched_prev(st, K, prev_parasents) ==
    IF Evaluated(st) /\ prev_parasents = <<>> THEN st
    ELSE LET ptr == Head(prev_parasents) IN
         IF ~matched_in_current(st.a, K, ptr)
         THEN collect_unmatched_prev(
                  IF IS_SENTENCE(K)
                  THEN [st EXCEPT !.unmatched_parasents_prev = Append(@, ptr),
                                  !.a = set_matched_in_current(@, K, ptr, TRUE),
                                  !.matched_parasents_prev = Append(@, ptr)]
                  ELSE [st EXCEPT !.unmatched_parasents_prev = Append(@, ptr)],
                  K, Tail(prev_parasents))
         ELSE collect_unmatched_prev(st, K, Tail(prev_parasents))

unmatched_prev_of(st, K, unmatched_revgraphs_prev) ==
    collect_unmatched_prev(st, K, all_parasents_in_parents(st.a, K, unmatched_revgraphs_prev))

analyse_parasents_in_revgraph(a, K, unmatched_revgraphs_curr, unmatched_revgraphs_prev) ==
    unmatched_prev_of(
        match_parents([a |-> a, unmatched_parasents_curr |-> <<>>,
                       unmatched_parasents_prev |-> <<>>, matched_parasents_prev |-> <<>>,
                       total_parasents |-> 0],
                      K, unmatched_revgraphs_curr, unmatched_revgraphs_prev),
        K, unmatched_revgraphs_prev)

(***************************************************************************)
(* compute_avg_word_freq: the average as the pair sum / count (count = 0   *)
(* stands for the result 0.0)                                              *)
(***************************************************************************)
remove_list ==
    { <<"<">>, <<">">>, <<"t", "r">>, <<"t", "d">>, <<"[">>, <<"]">>, <<"\"">>, <<"*">>,
      <<"=", "=">>, <<"{">>, <<"}">>, <<"|">>, <<"-">> }

RECURSIVE SumCounts(_, _)
SumCounts(counter, keys) ==
    IF keys = {} THEN 0
    ELSE LET t == CHOOSE x \in keys : TRUE
         IN  counter[t] + SumCounts(counter, keys \ {t})

compute_avg_word_freq(token_list) ==
    LET keys == Range(token_list) \ remove_list
        counter == [t \in keys |-> Cardinality({i \in 1..Len(token_list) : token_list[i] = t})]
    IN  [sum |-> SumCounts(counter, keys), count |-> Cardinality(keys)]

\* token_density >= TOKEN_DENSITY_LIMIT
ReachesDensityLimit(avg) ==
    IF avg.count > 0 THEN avg.sum >= TOKEN_DENSITY_LIMIT * avg.count
    ELSE 0 >= TOKEN_DENSITY_LIMIT

\* token_density > TOKEN_DENSITY_LIMIT
ExceedsDensityLimit(avg) ==
    IF avg.count > 0 THEN avg.sum > TOKEN_DENSITY_LIMIT * avg.count
    ELSE 0 > TOKEN_DENSITY_LIMIT

(***************************************************************************)
(* The diff.  imara_diff::diff_with_tokens is a library: it reports hunks  *)
(* (before, after), 0-based half-open ranges, between which old and new    *)
(* agree.  DiffHunks is the set of hunk lists of all alignments of old and *)
(* new to which no further pair of equal tokens can be added; the library  *)
(* returns one of them.  i and j are the numbers of tokens consumed.       *)
(***************************************************************************)
RECURSIVE DiffHunks(_, _, _, _)
DiffHunks(old, new, i, j) ==
    LET common == {pq \in ((i + 1)..Len(old)) \X ((j + 1)..Len(new)) : old[pq[1]] = new[pq[2]]}
        firsts == {pq \in common : ~\E rs \in common : rs[1] < pq[1] /\ rs[2] < pq[2]}
        Gap(p, q) == IF p = i + 1 /\ q = j + 1 THEN <<>>
                     ELSE <<[before |-> <<i, p - 1>>, after |-> <<j, q - 1>>]>>
    IN  IF common = {}
        THEN {Gap(Len(old) + 1, Len(new) + 1)}
        ELSE UNION {{Gap(pq[1], pq[2]) \o rest : rest \in DiffHunks(old, new, pq[1], pq[2])}
                    : pq \in firsts}

Tagged(tag, tokens) == [k \in 1..Len(tokens) |-> Some([tag |-> tag, value |-> tokens[k]])]

\* the sink closure of imara_diff, over the hunks from index h on
RECURSIVE imara_diff_sink(_, _, _, _, _)
imara_diff_sink(old, new, hunks, h, last_old_pos) ==
    IF h > Len(hunks)
    THEN IF last_old_pos < Len(old)
         THEN Tagged("Equal", SubSeq(old, last_old_pos + 1, Len(old))) ELSE <<>>
    ELSE LET before == hunks[h].before
             after == hunks[h].after
         IN  (IF before[1] > last_old_pos
              THEN Tagged("Equal", SubSeq(old, last_old_pos + 1, before[1])) ELSE <<>>)
             \o Tagged("Insert", SubSeq(new, after[1] + 1, after[2]))
             \o Tagged("Delete", SubSeq(old, before[1] + 1, before[2]))
             \o imara_diff_sink(old, new, hunks, h + 1, before[2])

imara_diff(old, new, hunks) == imara_diff_sink(old, new, hunks, 1, 0)

(***************************************************************************)
(* analyse_words_in_sentences                                              *)
(***************************************************************************)
\* allocate_new_word without the push to words_ordered of the sentence
allocate_detached_word(a, word, sentence_pointer) ==
    [a EXCEPT !.words = Append(@, WordAnalysis_new(word, a.revision_curr.id)),
              !.revisions[a.revision_curr.index + 1].original_adds = @ + 1]

allocate_new_word(a, word, sentence_pointer) ==
    [a EXCEPT !.words = Append(@, WordAnalysis_new(word, a.revision_curr.id)),
              !.sentences[sentence_pointer + 1].words_ordered = Append(@, Len(a.words)),
              !.revisions[a.revision_curr.index + 1].original_adds = @ + 1]

\* unmatched_words_prev: the unflagged words of the unmatched previous sentences
unmatched_words_prev_of(a, unmatched_sentences_prev) ==
    SelectSeq(iterate_words_in_sentences(a, unmatched_sentences_prev),
              LAMBDA w : ~a.words[w + 1].matched_in_current)

text_prev_of(a, unmatched_sentences_prev) ==
    LET uwp == unmatched_words_prev_of(a, unmatched_sentences_prev)
    IN  [i \in 1..Len(uwp) |-> a.words[uwp[i] + 1].value]

unmatched_sentence_curr_splitted(a, unmatched_sentences_curr) ==
    [i \in 1..Len(unmatched_sentences_curr) |->
        Split(a.sentences[unmatched_sentences_curr[i] + 1].value, <<" ">>)]

text_curr_of(a, unmatched_sentences_curr) ==
    Flatten(unmatched_sentence_curr_splitted(a, unmatched_sentences_curr))

\* find_unmatched_word without the test of matched_in_current
find_same_valued_word(a, unmatched_words_prev, word) ==
    LET hits == {i \in 1..Len(unmatched_words_prev) :
                    a.words[unmatched_words_prev[i] + 1].value = word}
    IN  IF hits = {} THEN NoPtr
        ELSE unmatched_words_prev[CHOOSE i \in hits : \A k \in hits : i <= k]

\* unmatched_words_prev.iter().find(same token and not matched_in_current)
find_unmatched_word(a, unmatched_words_prev, word) ==
    LET hits == {i \in 1..Len(unmatched_words_prev) :
                    /\ a.words[unmatched_words_prev[i] + 1].value = word
                    /\ ~a.words[unmatched_words_prev[i] + 1].matched_in_current}
    IN  IF hits = {} THEN NoPtr
        ELSE unmatched_words_prev[CHOOSE i \in hits : \A k \in hits : i <= k]

\* scan_diff with a Delete case that records no outbound entry
RECURSIVE scan_diff_delete_untagged(_, _, _, _, _)
scan_diff_delete_untagged(w, k, word, sentence_curr, unmatched_words_prev) ==
    IF k > Len(w.diff)
    THEN [w EXCEPT !.a = allocate_new_word(@, word, sentence_curr)]
    ELSE IF w.diff[k] = None \/ w.diff[k][1].value # word
    THEN scan_diff_delete_untagged(w, k + 1, word, sentence_curr, unmatched_words_prev)
    ELSE LET word_prev == find_unmatched_word(w.a, unmatched_words_prev, word)
             change_tag == w.diff[k][1].tag
         IN  CASE change_tag = "Equal" ->
                    IF word_prev # NoPtr
                    THEN [w EXCEPT
                            !.a.words[word_prev + 1].matched_in_current = TRUE,
                            !.a.sentences[sentence_curr + 1].words_ordered = Append(@, word_prev),
                            !.matched_words_prev = Append(@, word_prev),
                            !.diff[k] = None]
                    ELSE scan_diff_delete_untagged(w, k + 1, word, sentence_curr,
                                                   unmatched_words_prev)
               [] change_tag = "Delete" ->
                    IF word_prev # NoPtr
                    THEN scan_diff_delete_untagged(
                            [w EXCEPT
                                !.a.words[word_prev + 1].matched_in_current = TRUE,
                                !.matched_words_prev = Append(@, word_prev),
                                !.diff[k] = None],
                            k + 1, word, sentence_curr, unmatched_words_prev)
                    ELSE scan_diff_delete_untagged(w, k + 1, word, sentence_curr,
                                                   unmatched_words_prev)
               [] change_tag = "Insert" ->
                    [w EXCEPT !.a = allocate_new_word(@, word, sentence_curr),
                              !.diff[k] = None]

\* the scan of the remaining diff operations for one current token, from
\* operation k on; w carries the analysis, the diff and matched_words_prev
RECURSIVE scan_diff(_, _, _, _, _)
scan_diff(w, k, word, sentence_curr, unmatched_words_prev) ==
    IF k > Len(w.diff)
    THEN \* word was not found in the diff
         [w EXCEPT !.a = allocate_new_word(@, word, sentence_curr)]
    ELSE IF w.diff[k] = None \/ w.diff[k][1].value # word
    THEN scan_diff(w, k + 1, word, sentence_curr, unmatched_words_prev)
    ELSE LET word_prev == find_unmatched_word(w.a, unmatched_words_prev, word)
             change_tag == w.diff[k][1].tag
         IN  CASE change_tag = "Equal" ->
                    IF word_prev # NoPtr
                    THEN [w EXCEPT
                            !.a.words[word_prev + 1].matched_in_current = TRUE,
                            !.a.sentences[sentence_curr + 1].words_ordered = Append(@, word_prev),
                            !.matched_words_prev = Append(@, word_prev),
                            !.diff[k] = None]
                    ELSE scan_diff(w, k + 1, word, sentence_curr, unmatched_words_prev)
               [] change_tag = "Delete" ->
                    IF word_prev # NoPtr
                    THEN scan_diff(
                            [w EXCEPT
                                !.a.words[word_prev + 1].matched_in_current = TRUE,
                                !.a.words[word_prev + 1].outbound =
                                    Append(@, w.a.revision_curr.id),
                                !.matched_words_prev = Append(@, word_prev),
                                !.diff[k] = None],
                            k + 1, word, sentence_curr, unmatched_words_prev)
                    ELSE scan_diff(w, k + 1, word, sentence_curr, unmatched_words_prev)
               [] change_tag = "Insert" ->
                    [w EXCEPT !.a = allocate_new_word(@, word, sentence_curr),
                              !.diff[k] = None]

RECURSIVE match_words_of_sentence(_, _, _, _)
match_words_of_sentence(w, sentence_curr, tokens, unmatched_words_prev) ==
    IF Evaluated(w) /\ tokens = <<>> THEN w
    ELSE match_words_of_sentence(
             scan_diff(w, 1, Head(tokens), sentence_curr, unmatched_words_prev),
             sentence_curr, Tail(tokens), unmatched_words_prev)

RECURSIVE match_words_of_sentences(_, _, _, _, _)
match_words_of_sentences(w, unmatched_sentences_curr, splitted, i, unmatched_words_prev) ==
    IF Evaluated(w) /\ i > Len(unmatched_sentences_curr) THEN w
    ELSE match_words_of_sentences(
             match_words_of_sentence(w, unmatched_sentences_curr[i], splitted[i],
                                     unmatched_words_prev),
             unmatched_sentences_curr, splitted, i + 1, unmatched_words_prev)

RECURSIVE allocate_words_of_sentence(_, _, _)
allocate_words_of_sentence(a, sentence_curr, tokens) ==
    IF Evaluated(a) /\ tokens = <<>> THEN a
    ELSE allocate_words_of_sentence(allocate_new_word(a, Head(tokens), sentence_curr),
                                    sentence_curr, Tail(tokens))

RECURSIVE allocate_words_of_sentences(_, _, _, _)
allocate_words_of_sentences(a, unmatched_sentences_curr, splitted, i) ==
    IF Evaluated(a) /\ i > Len(unmatched_sentences_curr) THEN a
    ELSE allocate_words_of_sentences(
             allocate_words_of_sentence(a, unmatched_sentences_curr[i], splitted[i]),
             unmatched_sentences_curr, splitted, i + 1)

\* the function from the check of text_curr on
\* words_of_texts with the words allocated before the density check
words_checked_late(a, unmatched_sentences_curr, unmatched_words_prev, text_prev, splitted, text_curr, possible_vandalism, hunks) ==
    IF text_curr = <<>>
    THEN [a |-> a, matched_words_prev |-> <<>>, vandalism |-> FALSE]
    ELSE IF possible_vandalism /\ ExceedsDensityLimit(compute_avg_word_freq(text_curr))
    THEN [a |-> allocate_words_of_sentences(a, unmatched_sentences_curr, splitted, 1),
          matched_words_prev |-> <<>>, vandalism |-> TRUE]
    ELSE IF text_prev = <<>>
    THEN [a |-> allocate_words_of_sentences(a, unmatched_sentences_curr, splitted, 1),
          matched_words_prev |-> <<>>, vandalism |-> FALSE]
    ELSE [match_words_of_sentences(
              [a |-> a, diff |-> imara_diff(text_prev, text_curr, hunks),
               matched_words_prev |-> <<>>],
              unmatched_sentences_curr, splitted, 1, unmatched_words_prev)
          EXCEPT !.diff = <<>>] @@ [vandalism |-> FALSE]

words_of_texts(a, unmatched_sentences_curr, unmatched_words_prev, text_prev, splitted, text_curr, possible_vandalism, hunks) ==
    IF text_curr = <<>>
    THEN [a |-> a, matched_words_prev |-> <<>>, vandalism |-> FALSE]
    ELSE IF possible_vandalism /\ ExceedsDensityLimit(compute_avg_word_freq(text_curr))
    THEN [a |-> a, matched_words_prev |-> <<>>, vandalism |-> TRUE]
    ELSE IF text_prev = <<>>
    THEN [a |-> allocate_words_of_sentences(a, unmatched_sentences_curr, splitted, 1),
          matched_words_prev |-> <<>>, vandalism |-> FALSE]
    ELSE [match_words_of_sentences(
              [a |-> a, diff |-> imara_diff(text_prev, text_curr, hunks),
               matched_words_prev |-> <<>>],
              unmatched_sentences_curr, splitted, 1, unmatched_words_prev)
          EXCEPT !.diff = <<>>] @@ [vandalism |-> FALSE]

\* `hunks` is what the diff library reports if the function gets to call it.
\* Returns the analysis, matched_words_prev and the vandalism flag.
analyse_words_in_sentences(a, unmatched_sentences_curr, unmatched_sentences_prev, possible_vandalism, hunks) ==
    words_of_texts(a, unmatched_sentences_curr,
        unmatched_words_prev_of(a, unmatched_sentences_prev),
        text_prev_of(a, unmatched_sentences_prev),
        unmatched_sentence_curr_splitted(a, unmatched_sentences_curr),
        text_curr_of(a, unmatched_sentences_curr),
        possible_vandalism, hunks)

\* whether analyse_words_in_sentences gets to the diff
reaches_diff(text_prev, text_curr, possible_vandalism) ==
    /\ text_curr # <<>>
    /\ ~(possible_vandalism /\ ExceedsDensityLimit(compute_avg_word_freq(text_curr)))
    /\ text_prev # <<>>

(***************************************************************************)
(* determine_authorship, in two parts: the matching of paragraphs and      *)
(* sentences, up to the call of analyse_words_in_sentences, and the rest.  *)
(***************************************************************************)
\* the result of the paragraph pass rp, when no paragraph is left to match
fragments_of_paragraphs(rp) ==
    [a |-> rp.a,
     unmatched_paragraphs_curr |-> rp.unmatched_parasents_curr,
     unmatched_paragraphs_prev |-> rp.unmatched_parasents_prev,
     matched_paragraphs_prev |-> rp.matched_parasents_prev,
     unmatched_sentences_curr |-> <<>>,
     unmatched_sentences_prev |-> <<>>,
     matched_sentences_prev |-> <<>>,
     possible_vandalism |-> FALSE]

\* the results of the paragraph pass rp and of the sentence pass rs
fragments_of_sentences(rp, rs) ==
    [a |-> rs.a,
     unmatched_paragraphs_curr |-> rp.unmatched_parasents_curr,
     unmatched_paragraphs_prev |-> rp.unmatched_parasents_prev,
     matched_paragraphs_prev |-> rp.matched_parasents_prev,
     unmatched_sentences_curr |-> rs.unmatched_parasents_curr,
     unmatched_sentences_prev |-> rs.unmatched_parasents_prev,
     matched_sentences_prev |-> rs.matched_parasents_prev,
     possible_vandalism |->
        Len(rp.unmatched_parasents_curr) >
          UNMATCHED_PARAGRAPH
            * Len(rs.a.revisions[rs.a.revision_curr.index + 1].paragraphs_ordered)]

sentences_of_paragraphs(rp) ==
    IF rp.unmatched_parasents_curr # <<>>
    THEN fragments_of_sentences(rp,
             analyse_parasents_in_revgraph(rp.a, "sentence", rp.unmatched_parasents_curr,
                                           rp.unmatched_parasents_prev))
    ELSE fragments_of_paragraphs(rp)

determine_authorship_fragments(a) ==
    sentences_of_paragraphs(
        analyse_parasents_in_revgraph(a, "paragraph", <<a.revision_curr>>, a.revision_prev))

\* the hunk lists the diff library may report for this revision
diff_choices_of(text_prev, text_curr, run, possible_vandalism) ==
    IF run /\ reaches_diff(text_prev, text_curr, possible_vandalism)
    THEN DiffHunks(text_prev, text_curr, 0, 0)
    ELSE {<<>>}

diff_choices(m) ==
    diff_choices_of(text_prev_of(m.a, m.unmatched_sentences_prev),
                    text_curr_of(m.a, m.unmatched_sentences_curr),
                    m.unmatched_sentences_curr # <<>>, m.possible_vandalism)

\* MapPushEach that enters only the first of the fragments
MapPushHead(ht, ptrs, arena) ==
    IF ptrs = <<>> THEN ht ELSE MapPush(ht, arena[Head(ptrs) + 1].value, Head(ptrs))

RECURSIVE MapPushEach(_, _, _)
MapPushEach(ht, ptrs, arena) ==
    IF Evaluated(ht) /\ ptrs = <<>> THEN ht
    ELSE MapPushEach(MapPush(ht, arena[Head(ptrs) + 1].value, Head(ptrs)), Tail(ptrs), arena)

ResetFlags(arena, ptrs) ==
    [i \in 1..Len(arena) |->
        IF (i - 1) \in ptrs THEN [arena[i] EXCEPT !.matched_in_current = FALSE] ELSE arena[i]]

\* if there are some sentences to match: analyse_words_in_sentences
words_result(m, hunks) ==
    IF m.unmatched_sentences_curr # <<>>
    THEN analyse_words_in_sentences(m.a, m.unmatched_sentences_curr,
             m.unmatched_sentences_prev, m.possible_vandalism, hunks)
    ELSE [a |-> m.a, matched_words_prev |-> <<>>, vandalism |-> FALSE]

\* tag_deleted_in_sentences leaving the words as they are
tag_deleted_in_no_sentence(m, a) == a.words

\* tag all words that are deleted in the current revision
tag_deleted_in_sentences(m, a) ==
    PushOutboundEach(a.words, iterate_words_in_sentences(a, m.unmatched_sentences_prev),
                     a.revision_curr.id)

tag_deleted_in_no_paragraph(m, a, tagged) == tagged

tag_deleted_in_paragraphs(m, a, tagged) ==
    IF m.unmatched_sentences_prev = <<>>
    THEN PushOutboundEach(tagged, iterate_words_in_paragraphs(a, m.unmatched_paragraphs_prev),
                          a.revision_curr.id)
    ELSE tagged

\* if !vandalism: the outbound tags and the new entries of the hash tables
\* tag_and_index without the test of the vandalism flag
tag_and_index_always(m, a, vandalism) ==
    [a EXCEPT
        !.words = tag_deleted_in_paragraphs(m, a, tag_deleted_in_sentences(m, a)),
        !.paragraphs_ht = MapPushEach(@, m.unmatched_paragraphs_curr, a.paragraphs),
        !.sentences_ht = MapPushEach(@, m.unmatched_sentences_curr, a.sentences)]

tag_and_index(m, a, vandalism) ==
    IF ~vandalism
    THEN [a EXCEPT
            !.words = tag_deleted_in_paragraphs(m, a, tag_deleted_in_sentences(m, a)),
            !.paragraphs_ht = MapPushEach(@, m.unmatched_paragraphs_curr, a.paragraphs),
            !.sentences_ht = MapPushEach(@, m.unmatched_sentences_curr, a.sentences)]
    ELSE a

\* the bookkeeping without the sweep over the matched paragraphs
handle_no_words_of_paragraphs(m, a, vandalism, revision_id_prev) == a.words

handle_words_of_paragraphs(m, a, vandalism, revision_id_prev) ==
    HandleEach(a.words, iterate_words_in_paragraphs(a, m.matched_paragraphs_prev),
               vandalism, a.revision_curr.id, revision_id_prev, TRUE)

handle_words_of_sentences(m, a, handled, vandalism, revision_id_prev) ==
    HandleEach(handled, iterate_words_in_sentences(a, m.matched_sentences_prev),
               vandalism, a.revision_curr.id, revision_id_prev, TRUE)

\* reset the matches that we modified in old revisions
reset_matches(m, a, matched_words_prev, vandalism, revision_id_prev) ==
    [a EXCEPT
        !.paragraphs = ResetFlags(@, Range(m.matched_paragraphs_prev)),
        !.sentences = ResetFlags(@,
            Range(Flatten([i \in 1..Len(m.matched_paragraphs_prev) |->
                      a.paragraphs[m.matched_paragraphs_prev[i] + 1].sentences_ordered]))
              \cup Range(m.matched_sentences_prev)),
        !.words = HandleEach(
            handle_words_of_sentences(m, a,
                handle_words_of_paragraphs(m, a, vandalism, revision_id_prev),
                vandalism, revision_id_prev),
            matched_words_prev, vandalism, a.revision_curr.id, revision_id_prev, FALSE)]

\* authorship_of_words that tells the bookkeeping of no previous revision
authorship_without_prev(m, wr) ==
    [a |-> reset_matches(m, tag_and_index(m, wr.a, wr.vandalism), wr.matched_words_prev,
                         wr.vandalism, None),
     vandalism |-> wr.vandalism]

authorship_of_words(m, wr) ==
    [a |-> reset_matches(m, tag_and_index(m, wr.a, wr.vandalism), wr.matched_words_prev,
                         wr.vandalism,
                         [i \in 1..Len(m.a.revision_prev) |-> m.a.revision_prev[i].id]),
     vandalism |-> wr.vandalism]

\* Returns the analysis and the vandalism flag.
determine_authorship_words(m, hunks) == authorship_of_words(m, words_result(m, hunks))

(***************************************************************************)
(* Input revisions (dump_parser::Revision).  text is Text::Deleted or      *)
(* Text::Normal(body followed by pad spaces); comment stands for           *)
(* comment.is_some(); sha1 is the Option of the parser.                    *)
(***************************************************************************)
Deleted == [kind |-> "Deleted"]
Normal(body, pad) == [kind |-> "Normal", body |-> body, pad |-> pad]

Rev(text, comment, minor, sha1) ==
    [text |-> text, comment |-> comment, minor |-> minor, sha1 |-> sha1]

(***************************************************************************)
(* DumpParser::parse_page (dump_parser.rs) on the events that the XML       *)
(* reader reports for a page: Start, Empty, Text and End events and Eof.   *)
(* Of a start tag the model keeps the name and, for <text>, whether it has *)
(* the attribute `deleted`.  The build option `strict` is an input.        *)
(***************************************************************************)
Event(kind, name, deleted, text) ==
    [kind |-> kind, name |-> name, deleted |-> deleted, text |-> text]

\* Tag::from_start_bytes: Tag::Text(deleted, _) for <text>, else the tag of the name
from_start_bytes(e) == [name |-> e.name, deleted |-> e.name = "text" /\ e.deleted]

RevisionBuilder_new ==
    [id |-> None, timestamp |-> None, contributor_name |-> None, text |-> None,
     comment |-> FALSE, minor |-> FALSE]

\* RevisionBuilder::try_build: None for a missing mandatory field
try_build(b) ==
    IF b.id = None \/ b.timestamp = None \/ b.contributor_name = None \/ b.text = None
    THEN None
    ELSE Some([id |-> b.id[1]] @@ Rev(b.text[1], b.comment, b.minor, None))

\* one turn of the loop of parse_page; ps.outcome tells whether it goes on
parse_event(ps, e, strict) ==
    LET path == [i \in 1..Len(ps.current_path) |-> ps.current_path[i].name]
        in_revision == <<"mediawiki", "page", "revision">>
        built == ps.revision_builder # None
    IN  CASE e.kind = "Start" ->
               [ps EXCEPT !.started_page = @ \/ e.name = "page",
                          !.revision_builder =
                              IF e.name = "revision" THEN Some(RevisionBuilder_new) ELSE @,
                          !.current_path = Append(@, from_start_bytes(e))]
          [] e.kind = "Empty" ->
               IF built /\ path \o <<e.name>> = in_revision \o <<"text">>
               THEN [ps EXCEPT !.revision_builder[1].text = Some(Normal(<<>>, 0))]
               ELSE IF built /\ path \o <<e.name>> = in_revision \o <<"minor">>
               THEN [ps EXCEPT !.revision_builder[1].minor = TRUE]
               ELSE ps
          [] e.kind = "Text" ->
               IF ~built THEN ps
               ELSE IF path = in_revision \o <<"id">>
               THEN [ps EXCEPT !.revision_builder[1].id = Some(e.text)]
               ELSE IF path = in_revision \o <<"timestamp">>
               THEN [ps EXCEPT !.revision_builder[1].timestamp = Some(e.text)]
               ELSE IF path = in_revision \o <<"contributor", "username">>
               THEN [ps EXCEPT !.revision_builder[1].contributor_name = Some(e.text)]
               ELSE IF path = in_revision \o <<"text">>
               THEN [ps EXCEPT !.revision_builder[1].text =
                                   Some(IF Last(ps.current_path).deleted THEN Deleted
                                        ELSE Normal(e.text, 0))]
               ELSE IF path = in_revision \o <<"comment">>
               THEN [ps EXCEPT !.revision_builder[1].comment = TRUE]
               ELSE IF path = in_revision \o <<"minor">>
               THEN [ps EXCEPT !.revision_builder[1].minor = TRUE]
               ELSE ps
          [] e.kind = "End" ->
               IF ps.current_path = <<>>
               THEN IF strict THEN [ps EXCEPT !.outcome = "Err(Eof)"] ELSE ps
               ELSE IF Last(path) # e.name /\ strict
               THEN [ps EXCEPT !.outcome = "Err(Eof)"]
               ELSE LET popped == [ps EXCEPT !.current_path = SubSeq(@, 1, Len(@) - 1)]
                    IN  IF Last(path) = "revision" /\ built
                        THEN IF try_build(ps.revision_builder[1]) # None
                             THEN [popped EXCEPT
                                      !.revision_builder = None,
                                      !.revisions = Append(@, try_build(ps.revision_builder[1])[1])]
                             ELSE IF strict
                             THEN [popped EXCEPT !.revision_builder = None,
                                                 !.outcome = "Err(Eof)"]
                             ELSE [popped EXCEPT !.revision_builder = None]
                        ELSE IF Last(path) = "page"
                        THEN [popped EXCEPT !.outcome = "Ok(Some(page))"]
                        ELSE popped
          [] OTHER ->
               [ps EXCEPT !.outcome = IF ps.started_page THEN "Err(Eof)" ELSE "Ok(None)"]

RECURSIVE parse_events(_, _, _)
parse_events(ps, events, strict) ==
    IF ps.outcome # "reading" \/ events = <<>> THEN ps
    ELSE parse_events(parse_event(ps, Head(events), strict), Tail(events), strict)

\* what parse_page returns, with the revisions of the page if it returns one;
\* current_path is what parse_site_info left
parse_page(events, strict) ==
    LET ps == parse_events([current_path |-> <<from_start_bytes(Event("Start", "mediawiki", FALSE, <<>>))>>,
                            revision_builder |-> None, revisions |-> <<>>,
                            started_page |-> FALSE, outcome |-> "reading"],
                           events \o <<Event("Eof", "", FALSE, <<>>)>>, strict)
    IN  [outcome |-> ps.outcome,
         revisions |-> IF ps.outcome = "Ok(Some(page))" THEN ps.revisions ELSE <<>>]

\* 21 times the token "a": average frequency 21
Body21 == Join([i \in 1..21 |-> <<"a">>], <<" ">>)

\* 20 times the token "c": average frequency 20
Body20 == Join([i \in 1..20 |-> <<"c">>], <<" ">>)

\* 21 times the token "[" of the remove_list: average frequency 0
Brackets21 == Join([i \in 1..21 |-> <<"[">>], <<" ">>)

Plain(text) == Rev(text, FALSE, FALSE, None)

\* The shapes of the input revisions.  The padded ones have the lengths at
\* the limits of the deletion check: 1500 -> 900 is a change of -0.40 and
\* 1500 -> 901 one of less, 1667 -> 999 and 1667 -> 1000 are changes of more
\* than -0.40, "I." stands for one code point that lowercases to two.
InputRevisions ==
    { Plain(Deleted),
      Plain(Normal(<<"x">>, 0)),
      Plain(Normal(<<"y">>, 0)),
      Plain(Normal(<<"a">>, 0)),
      Plain(Normal(<<"b">>, 0)),
      Plain(Normal(<<"b", "\n", "\n", "a", " ", "b">>, 0)),
      Plain(Normal(<<"a", " ", "b">>, 0)),
      Plain(Normal(<<"b", " ", "a">>, 0)),
      Plain(Normal(<<"a", ";", " ", "b">>, 0)),
      Plain(Normal(<<"x", "\n", "\n", "x">>, 0)),
      Plain(Normal(<<>>, 0)),
      Plain(Normal(Body21, 1000)),
      Plain(Normal(Body20, 0)),
      Plain(Normal(Brackets21, 0)),
      Plain(Normal(<<"[", " ">> \o Body21, 0)),
      Plain(Normal(<<"a", "\n", "\n">> \o Body21, 0)),
      Plain(Normal(<<"x">>, 1499)),
      Plain(Normal(<<"x">>, 1666)),
      Plain(Normal(<<"x">>, 1000)),
      Plain(Normal(<<"x">>, 999)),
      Plain(Normal(<<"I.">>, 999)),
      Plain(Normal(<<"y">>, 899)),
      Plain(Normal(<<"y">>, 900)),
      Plain(Normal(<<"y">>, 998)),
      Plain(Normal(<<"y">>, 999)),
      Rev(Normal(<<"y">>, 899), TRUE, TRUE, None),
      Rev(Normal(<<"y">>, 899), TRUE, FALSE, None),
      Rev(Normal(<<"y">>, 899), FALSE, TRUE, None),
      Rev(Normal(Body21, 1000), FALSE, FALSE, Some("h")),
      Rev(Normal(<<"x">>, 0), TRUE, TRUE, Some("h")) }

(***************************************************************************)
(* RevisionImmutables::from_revision.  Trailing spaces never reach a       *)
(* fragment (the split on "\n\n" leaves them at the end of the last piece, *)
(* where trim_in_place removes them), so text keeps the body only; length  *)
(* counts the code points of the original text.                            *)
(***************************************************************************)
text_as_str_chars_count(text) ==
    IF text.kind = "Normal" THEN Len(text.body) + text.pad ELSE 0

\* from_revision with the length of the lowercased text
from_revision_lowercased(index, id, xml_revision) ==
    [index |-> index,
     id |-> id,
     length |-> IF xml_revision.text.kind = "Normal"
                THEN Len(to_lowercase(xml_revision.text.body)) + xml_revision.text.pad
                ELSE 0,
     text |-> IF xml_revision.text.kind = "Normal"
              THEN to_lowercase(xml_revision.text.body) ELSE <<>>]

from_revision(index, id, xml_revision) ==
    [index |-> index,
     id |-> id,
     length |-> text_as_str_chars_count(xml_revision.text),
     text |-> IF xml_revision.text.kind = "Normal"
              THEN to_lowercase(xml_revision.text.body) ELSE <<>>]

\* RevisionHash::Sha1(sha1) or RevisionHash::Blake3(hash of the raw text)
rev_hash_of(xml_revision) ==
    IF xml_revision.sha1 # None THEN <<"Sha1", xml_revision.sha1[1]>>
    ELSE <<"Blake3", xml_revision.text>>

\* change_percentage <= CHANGE_PERCENTAGE, for the f64 quotient
\* (length - prev_length) / prev_length: x / 0 is an infinity or NaN
change_percentage_le(length, prev_length) ==
    /\ prev_length > 0
    /\ (length - prev_length) * 100 <= CHANGE_PERCENTAGE_PCT * prev_length

(***************************************************************************)
(* State of analyse_page                                                   *)
(***************************************************************************)
VARIABLES
    revisions, paragraphs, sentences, words,          \* the arenas
    spam_ids, revisions_by_id, ordered_revisions,
    revision_curr,
    paragraphs_ht, sentences_ht, spam_hashes, revision_prev,   \* internals
    at_least_one,
    xml_revisions,    \* the input revisions consumed so far, with their ids
    result,           \* "running", or the value returned: "Ok" / "NoValidRevisions"
    last,             \* what the latest loop iteration did
    argument,         \* the input handed to a function of utils.rs or dump_parser.rs
    returned          \* what the functions called on the argument returned, in call order

vars == <<revisions, paragraphs, sentences, words, spam_ids, revisions_by_id,
          ordered_revisions, revision_curr, paragraphs_ht, sentences_ht, spam_hashes,
          revision_prev, at_least_one, xml_revisions, result, last, argument, returned>>

\* the part of the state the matcher works on
Analysis ==
    [revisions |-> revisions, paragraphs |-> paragraphs, sentences |-> sentences,
     words |-> words, paragraphs_ht |-> paragraphs_ht, sentences_ht |-> sentences_ht,
     revision_curr |-> revision_curr, revision_prev |-> revision_prev]

\* Analysis::analyse_page before the first revision
InitAnalysis ==
    /\ revisions = <<>>
    /\ paragraphs = <<>>
    /\ sentences = <<>>
    /\ words = <<>>
    /\ spam_ids = <<>>
    /\ revisions_by_id = EmptyMap
    /\ ordered_revisions = <<>>
    /\ revision_curr = RevisionImmutables_dummy
    /\ paragraphs_ht = EmptyMap
    /\ sentences_ht = EmptyMap
    /\ spam_hashes = {}
    /\ revision_prev = None
    /\ at_least_one = FALSE
    /\ xml_revisions = <<>>
    /\ result = "running"
    /\ last = [outcome |-> "none", hash_known |-> FALSE, deletion |-> FALSE, id_prev |-> 0]

\* analyse_page gets its revisions from the caller: no text is handed to
\* the tokenizers or to the parser on its own
Init ==
    /\ InitAnalysis
    /\ argument = <<>>
    /\ returned = <<>>

\* the next element of the input slice
NextInput(shape) == [id |-> Len(xml_revisions) + 1] @@ shape

Consume(xml_revision, outcome, hash_known, deletion) ==
    /\ xml_revisions' = Append(xml_revisions, xml_revision)
    /\ last' = [outcome |-> outcome,
                hash_known |-> hash_known,
                deletion |-> deletion,
                id_prev |-> revision_curr.id]
    /\ UNCHANGED <<argument, returned>>

(***************************************************************************)
(* The spam checks made before matching (analyse_page, lines 762-782)      *)
(***************************************************************************)
\* the spam hash check with the exemption of commented minor revisions
hash_is_spam_unless_minor(xml_revision) ==
    /\ rev_hash_of(xml_revision) \in spam_hashes
    /\ ~(xml_revision.comment /\ xml_revision.minor)

hash_is_spam(xml_revision) == rev_hash_of(xml_revision) \in spam_hashes

deletion_vandalism(xml_revision) ==
    /\ ~(hash_is_spam(xml_revision) \/ (xml_revision.comment /\ xml_revision.minor))
    /\ revision_curr.length > PREVIOUS_LENGTH
    /\ text_as_str_chars_count(xml_revision.text) < CURR_LENGTH
    /\ change_percentage_le(text_as_str_chars_count(xml_revision.text),
                            revision_curr.length)

(***************************************************************************)
(* One iteration of the loop of analyse_page, by the way it ends           *)
(***************************************************************************)
\* the loop of analyse_page is at an input revision
InLoop == result = "running"

\* SkipDeleted forgetting the previous revision
SkipDeletedForgetting(xml_revision) ==
    /\ InLoop
    /\ xml_revision.text.kind = "Deleted"
    /\ Consume(xml_revision, "deleted", FALSE, FALSE)
    /\ revision_prev' = None
    /\ UNCHANGED <<revisions, paragraphs, sentences, words, spam_ids, revisions_by_id,
                   ordered_revisions, revision_curr, paragraphs_ht, sentences_ht,
                   spam_hashes, at_least_one, result>>

\* Text::Deleted => continue
SkipDeleted(xml_revision) ==
    /\ InLoop
    /\ xml_revision.text.kind = "Deleted"
    /\ Consume(xml_revision, "deleted", FALSE, FALSE)
    /\ UNCHANGED <<revisions, paragraphs, sentences, words, spam_ids, revisions_by_id,
                   ordered_revisions, revision_curr, paragraphs_ht, sentences_ht,
                   spam_hashes, revision_prev, at_least_one, result>>

\* RejectBeforeMatching with a revision of known spam content dropped
\* without a new entry of spam_ids
RejectKnownSilently(xml_revision) ==
    /\ InLoop
    /\ xml_revision.text.kind = "Normal"
    /\ hash_is_spam(xml_revision) \/ deletion_vandalism(xml_revision)
    /\ spam_ids' = IF hash_is_spam(xml_revision) THEN spam_ids
                   ELSE Append(spam_ids, xml_revision.id)
    /\ spam_hashes' = spam_hashes \cup {rev_hash_of(xml_revision)}
    /\ Consume(xml_revision, "spam_before", hash_is_spam(xml_revision),
               deletion_vandalism(xml_revision))
    /\ UNCHANGED <<revisions, paragraphs, sentences, words, revisions_by_id,
                   ordered_revisions, revision_curr, paragraphs_ht, sentences_ht,
                   revision_prev, at_least_one, result>>

\* vandalism before matching: spam_ids.push, spam_hashes.insert, continue
RejectBeforeMatching(xml_revision) ==
    /\ InLoop
    /\ xml_revision.text.kind = "Normal"
    /\ hash_is_spam(xml_revision) \/ deletion_vandalism(xml_revision)
    /\ spam_ids' = Append(spam_ids, xml_revision.id)
    /\ spam_hashes' = spam_hashes \cup {rev_hash_of(xml_revision)}
    /\ Consume(xml_revision, "spam_before", hash_is_spam(xml_revision),
               deletion_vandalism(xml_revision))
    /\ UNCHANGED <<revisions, paragraphs, sentences, words, revisions_by_id,
                   ordered_revisions, revision_curr, paragraphs_ht, sentences_ht,
                   revision_prev, at_least_one, result>>

\* the analysis after the allocation of the revision and the swap of
\* revision_curr (lines 791-800)
allocate_revision(a, xml_revision) ==
    [a EXCEPT !.revisions = Append(@, RevisionAnalysis_default),
              !.revision_curr = from_revision(Len(a.revisions), xml_revision.id, xml_revision),
              !.revision_prev = IF at_least_one THEN Some(a.revision_curr) ELSE @]

\* RejectDuringMatching without the revert of revision_curr
RejectWithoutRevert(xml_revision, a) ==
    /\ revision_curr' = a.revision_curr
    /\ revision_prev' = a.revision_prev
    /\ spam_ids' = Append(spam_ids, xml_revision.id)
    /\ spam_hashes' = spam_hashes \cup {rev_hash_of(xml_revision)}
    /\ UNCHANGED <<ordered_revisions, revisions_by_id, at_least_one>>
    /\ Consume(xml_revision, "spam_matching", FALSE, FALSE)

\* if vandalism: revert revision_curr and mark the revision as spam
RejectDuringMatching(xml_revision, a) ==
    /\ revision_curr' = IF at_least_one THEN a.revision_prev[1] ELSE a.revision_curr
    /\ revision_prev' = IF at_least_one THEN None ELSE a.revision_prev
    /\ spam_ids' = Append(spam_ids, xml_revision.id)
    /\ spam_hashes' = spam_hashes \cup {rev_hash_of(xml_revision)}
    /\ UNCHANGED <<ordered_revisions, revisions_by_id, at_least_one>>
    /\ Consume(xml_revision, "spam_matching", FALSE, FALSE)

\* Commit with the revision stored in front of ordered_revisions
CommitInFront(xml_revision, a) ==
    /\ revision_curr' = a.revision_curr
    /\ revision_prev' = a.revision_prev
    /\ ordered_revisions' = <<a.revision_curr.id>> \o ordered_revisions
    /\ revisions_by_id' = [k \in DOMAIN revisions_by_id \cup {a.revision_curr.id} |->
                              IF k = a.revision_curr.id THEN a.revision_curr
                              ELSE revisions_by_id[k]]
    /\ at_least_one' = TRUE
    /\ UNCHANGED <<spam_ids, spam_hashes>>
    /\ Consume(xml_revision, "committed", FALSE, FALSE)

\* else: store the current revision in the result
Commit(xml_revision, a) ==
    /\ revision_curr' = a.revision_curr
    /\ revision_prev' = a.revision_prev
    /\ ordered_revisions' = Append(ordered_revisions, a.revision_curr.id)
    /\ revisions_by_id' = [k \in DOMAIN revisions_by_id \cup {a.revision_curr.id} |->
                              IF k = a.revision_curr.id THEN a.revision_curr
                              ELSE revisions_by_id[k]]
    /\ at_least_one' = TRUE
    /\ UNCHANGED <<spam_ids, spam_hashes>>
    /\ Consume(xml_revision, "committed", FALSE, FALSE)

\* the state after determine_authorship returned d
Matched(xml_revision, d) ==
    /\ revisions' = d.a.revisions
    /\ paragraphs' = d.a.paragraphs
    /\ sentences' = d.a.sentences
    /\ words' = d.a.words
    /\ paragraphs_ht' = d.a.paragraphs_ht
    /\ sentences_ht' = d.a.sentences_ht
    /\ IF d.vandalism THEN RejectDuringMatching(xml_revision, d.a)
       ELSE Commit(xml_revision, d.a)

MatchWith(xml_revision, m) ==
    \E hunks \in diff_choices(m) :
        Matched(xml_revision, determine_authorship_words(m, hunks))

\* allocation, determine_authorship, and the commit or the rejection
MatchRevision(xml_revision) ==
    /\ InLoop
    /\ xml_revision.text.kind = "Normal"
    /\ ~(hash_is_spam(xml_revision) \/ deletion_vandalism(xml_revision))
    /\ MatchWith(xml_revision,
                 determine_authorship_fragments(allocate_revision(Analysis, xml_revision)))
    /\ UNCHANGED result

\* Return with the test made on the arena of revisions
ReturnByArena ==
    /\ result = "running"
    /\ result' = IF revisions = <<>> THEN "NoValidRevisions" ELSE "Ok"
    /\ UNCHANGED <<revisions, paragraphs, sentences, words, spam_ids, revisions_by_id,
                   ordered_revisions, revision_curr, paragraphs_ht, sentences_ht,
                   spam_hashes, revision_prev, at_least_one, xml_revisions, last,
                   argument, returned>>

\* the end of the input slice: Err(NoValidRevisions) or Ok(analysis)
Return ==
    /\ result = "running"
    /\ result' = IF ~at_least_one THEN "NoValidRevisions" ELSE "Ok"
    /\ UNCHANGED <<revisions, paragraphs, sentences, words, spam_ids, revisions_by_id,
                   ordered_revisions, revision_curr, paragraphs_ht, sentences_ht,
                   spam_hashes, revision_prev, at_least_one, xml_revisions, last,
                   argument, returned>>

\* the input slice has a revision left (slices are cut at MaxRevs revisions)
MoreInput == Len(xml_revisions) < MaxRevs

Next ==
    \/ \E shape \in InputRevisions : MoreInput /\ SkipDeleted(NextInput(shape))
    \/ \E shape \in InputRevisions : MoreInput /\ RejectBeforeMatching(NextInput(shape))
    \/ \E shape \in InputRevisions : MoreInput /\ MatchRevision(NextInput(shape))
    \/ Return

Spec == Init /\ [][Next]_vars

(***************************************************************************)
(* The same loop on revisions whose IDs are unique but come in any order   *)
(* and with gaps (Revision::id is an i32 the caller supplies; Spec gives   *)
(* the revisions the IDs 1, 2, 3, ... of a page read in order).            *)
(***************************************************************************)
IdShapes ==
    { Plain(Deleted),
      Plain(Normal(<<"x">>, 0)),
      Plain(Normal(<<"y">>, 0)),
      Plain(Normal(<<"a", " ", "b">>, 0)),
      Plain(Normal(Body21, 1000)) }

Ids == 1..MaxIdRevs

\* the input slice has a revision left (slices are cut at MaxIdRevs revisions)
MoreIdInput == Len(xml_revisions) < MaxIdRevs

UsedIds == {xml_revisions[i].id : i \in 1..Len(xml_revisions)}

InputWithId(shape, id) == [id |-> id] @@ shape

NextIds ==
    \/ \E shape \in IdShapes, id \in Ids \ UsedIds :
          MoreIdInput /\ SkipDeleted(InputWithId(shape, id))
    \/ \E shape \in IdShapes, id \in Ids \ UsedIds :
          MoreIdInput /\ RejectBeforeMatching(InputWithId(shape, id))
    \/ \E shape \in IdShapes, id \in Ids \ UsedIds :
          MoreIdInput /\ MatchRevision(InputWithId(shape, id))
    \/ Return

SpecIds == Init /\ [][NextIds]_vars

(***************************************************************************)
(* The same loop on longer pages made of fewer texts (IDs 1, 2, 3, ...).   *)
(***************************************************************************)
LongShapes ==
    { Plain(Deleted),
      Plain(Normal(<<"x">>, 0)),
      Plain(Normal(<<"x", "\n", "\n", "x">>, 0)),
      Plain(Normal(<<"b">>, 0)),
      Plain(Normal(<<"a", " ", "b">>, 0)),
      Plain(Normal(<<"a", " ", "a">>, 0)),
      Plain(Normal(<<"a", " ", "b", " ", "a">>, 0)),
      Plain(Normal(<<"b", "\n", "\n", "a", " ", "b">>, 0)),
      Plain(Normal(Body21, 1000)) }

\* the input slice has a revision left (slices are cut at MaxLongRevs revisions)
MoreLongInput == Len(xml_revisions) < MaxLongRevs

NextLong ==
    \/ \E shape \in LongShapes : MoreLongInput /\ SkipDeleted(NextInput(shape))
    \/ \E shape \in LongShapes : MoreLongInput /\ RejectBeforeMatching(NextInput(shape))
    \/ \E shape \in LongShapes : MoreLongInput /\ MatchRevision(NextInput(shape))
    \/ Return

SpecLong == Init /\ [][NextLong]_vars

(***************************************************************************)
(* The tokenizers called on a text of their own, as the comparison tests   *)
(* of utils.rs call them: first the naive version, then the optimized one. *)
(***************************************************************************)
analysis_vars ==
    <<revisions, paragraphs, sentences, words, spam_ids, revisions_by_id, ordered_revisions,
      revision_curr, paragraphs_ht, sentences_ht, spam_hashes, revision_prev, at_least_one,
      xml_revisions, result, last>>

\* a text is made of at most MaxPieces pieces
MaxPieces == 3

\* the texts made of the pieces
TextsOf(pieces) ==
    {Flatten(choice) : choice \in UNION {[1..n -> pieces] : n \in 0..MaxPieces}}

\* separators, the pipe, the placeholder, a letter, symbols alone and in
\* the groups that the tokenizers keep together
TokenPieces ==
    { <<" ">>, <<"\n">>, <<"|">>, Placeholder, <<"a">>, <<";">>, <<"!">>, <<"-">>, <<"[">>,
      <<"]">>, <<"{">>, <<"<">>, <<">">>, <<"<", "!", "-", "-">>, <<"-", "-", ">">> }

InitTokens ==
    /\ InitAnalysis
    /\ argument \in TextsOf(TokenPieces)
    /\ returned = <<>>

\* let expected = split_into_tokens_naive(&input)
CallSplitIntoTokensNaive ==
    /\ Len(returned) = 0
    /\ returned' = Append(returned, split_into_tokens_naive(argument))
    /\ UNCHANGED <<analysis_vars, argument>>

\* let result_corasick = split_into_tokens_corasick(&input)
CallSplitIntoTokensCorasick ==
    /\ Len(returned) = 1
    /\ returned' = Append(returned, split_into_tokens_corasick(argument))
    /\ UNCHANGED <<analysis_vars, argument>>

NextTokens ==
    \/ CallSplitIntoTokensNaive
    \/ CallSplitIntoTokensCorasick

SpecTokens == InitTokens /\ [][NextTokens]_vars

\* line ends, the characters of the table markup, the tags, a letter
ParagraphPieces ==
    { <<"\n">>, <<"\r">>, <<"|">>, <<"-">>, <<"{">>, <<"}">>, <<"<">>, <<"a">>,
      <<"t", "r", ">">>, Markup.table, Markup.table_end, Markup.tr, Markup.tr_end }

InitParagraphs ==
    /\ InitAnalysis
    /\ argument \in TextsOf(ParagraphPieces)
    /\ returned = <<>>

\* let expected = split_into_paragraphs_naive(&input)
CallSplitIntoParagraphsNaive ==
    /\ Len(returned) = 0
    /\ returned' = Append(returned, split_into_paragraphs_naive(argument))
    /\ UNCHANGED <<analysis_vars, argument>>

\* let result_optimized = split_into_paragraphs_optimized(&input, two empty buffers)
CallSplitIntoParagraphsOptimized ==
    /\ Len(returned) = 1
    /\ returned' = Append(returned, split_into_paragraphs_optimized(argument, << <<>>, <<>> >>))
    /\ UNCHANGED <<analysis_vars, argument>>

NextParagraphs ==
    \/ CallSplitIntoParagraphsNaive
    \/ CallSplitIntoParagraphsOptimized

SpecParagraphs == InitParagraphs /\ [][NextParagraphs]_vars

(***************************************************************************)
(* parse_page called on the events of one page.                            *)
(***************************************************************************)
\* the events of the revision with the ID: id, timestamp, contributor, the
\* text element in its form, and <minor /> where the revision is minor
RevisionEvents(id, d) ==
    LET field(path_name, text) ==
            <<Event("Start", path_name, FALSE, <<>>), Event("Text", "", FALSE, text),
              Event("End", path_name, FALSE, <<>>)>>
    IN  <<Event("Start", "revision", FALSE, <<>>)>>
          \o field("id", id) \o field("timestamp", <<"t">>)
          \o <<Event("Start", "contributor", FALSE, <<>>)>> \o field("username", <<"u">>)
          \o <<Event("End", "contributor", FALSE, <<>>)>>
          \o (IF d.minor THEN <<Event("Empty", "minor", FALSE, <<>>)>> ELSE <<>>)
          \o (CASE d.form = "empty" -> <<Event("Empty", "text", d.deleted, <<>>)>>
                [] d.form = "pair" -> <<Event("Start", "text", d.deleted, <<>>),
                                        Event("End", "text", FALSE, <<>>)>>
                [] d.form = "content" -> <<Event("Start", "text", d.deleted, <<>>),
                                           Event("Text", "", FALSE, <<"x">>),
                                           Event("End", "text", FALSE, <<>>)>>
                [] OTHER -> <<>>)
          \o <<Event("End", "revision", FALSE, <<>>)>>

\* the events of a page with the revisions described, IDs 1, 2, ...
PageEvents(ds) ==
    <<Event("Start", "page", FALSE, <<>>)>>
      \o Flatten([k \in 1..Len(ds) |-> RevisionEvents(k, ds[k])])
      \o <<Event("End", "page", FALSE, <<>>)>>

\* a page has at most MaxPageRevs revisions
MaxPageRevs == 2

\* the <text> element of a revision is an empty element, a start and an end
\* tag with nothing or with a text between them, or is missing
InitParser ==
    /\ InitAnalysis
    /\ argument \in [revisions : UNION {[1..n -> [form : {"empty", "pair", "content", "none"},
                                                   deleted : BOOLEAN,
                                                   minor : BOOLEAN]] : n \in 1..MaxPageRevs},
                      strict : BOOLEAN]
    /\ returned = <<>>

\* parser.parse_page()
CallParsePage ==
    /\ Len(returned) = 0
    /\ returned' = Append(returned, parse_page(PageEvents(argument.revisions), argument.strict))
    /\ UNCHANGED <<analysis_vars, argument>>

NextParser == CallParsePage

SpecParser == InitParser /\ [][NextParser]_vars

(***************************************************************************)
(* Properties                                                              *)
(***************************************************************************)
\* the number of times id occurs in the list ids
Occurrences(ids, id) == Cardinality({k \in 1..Len(ids) : ids[k] = id})

\* C1: analyse_page returns Err(NoValidRevisions) exactly when no input
\* revision is committed, that is when every input revision is Deleted or
\* was rejected as spam (the empty input included); otherwise it returns Ok.
C1_ErrIffNothingCommitted ==
    result # "running" =>
        /\ result \in {"Ok", "NoValidRevisions"}
        /\ (result = "NoValidRevisions") <=> (ordered_revisions = <<>>)
        /\ (result = "NoValidRevisions") <=>
              \A i \in 1..Len(xml_revisions) :
                  \/ xml_revisions[i].text.kind = "Deleted"
                  \/ Occurrences(spam_ids, xml_revisions[i].id) > 0

\* Err is returned for an input with a Deleted revision and a spam revision
C1_Witness ==
    /\ result = "NoValidRevisions"
    /\ spam_ids # <<>>
    /\ \E i \in 1..Len(xml_revisions) : xml_revisions[i].text.kind = "Deleted"

\* C2: after any prefix of the input, the ID of each revision with Normal
\* text is exactly once in exactly one of spam_ids and ordered_revisions, the
\* ID of a Deleted revision is in neither, ordered_revisions is in input
\* order, and the keys of revisions_by_id are the IDs of ordered_revisions.
C2_IdsPartitioned ==
    /\ \A i \in 1..Len(xml_revisions) :
          Occurrences(spam_ids, xml_revisions[i].id)
            + Occurrences(ordered_revisions, xml_revisions[i].id)
          = IF xml_revisions[i].text.kind = "Normal" THEN 1 ELSE 0
    /\ \A k \in 1..Len(spam_ids) : spam_ids[k] \in 1..Len(xml_revisions)
    /\ \A k \in 1..Len(ordered_revisions) : ordered_revisions[k] \in 1..Len(xml_revisions)
    /\ \A j, k \in 1..Len(ordered_revisions) :
          j < k => ordered_revisions[j] < ordered_revisions[k]
    /\ DOMAIN revisions_by_id = Range(ordered_revisions)
    /\ \A id \in DOMAIN revisions_by_id : revisions_by_id[id].id = id

\* after a commit, a revision rejected before matching and a second one
\* rejected for its content, known as spam
C2_Witness ==
    /\ last.outcome = "spam_before" /\ last.hash_known
    /\ ordered_revisions # <<>>
    /\ Len(spam_ids) = 2

\* C3: once a revision has been committed, after every further revision
\* (committed, rejected before or during matching, Deleted) revision_curr is
\* the pointer of the most recently committed revision.
C3_CurrentIsLastCommitted ==
    ordered_revisions # <<>> =>
        /\ revision_curr.id = Last(ordered_revisions)
        /\ revision_curr = revisions_by_id[Last(ordered_revisions)]

\* a revision was rejected during matching after a commit
C3_Witness == ordered_revisions # <<>> /\ last.outcome = "spam_matching"

\* the values of the words at the pointers ptrs
WordValues(ptrs) == [i \in 1..Len(ptrs) |-> words[ptrs[i] + 1].value]

\* the tokens of a text: its paragraphs, their canonicalized sentences, and
\* each of these split on single spaces
TokensOfText(text) ==
    LET paras == split_into_parasents("paragraph", text)
    IN  Flatten([p \in 1..Len(paras) |->
            LET sents == split_into_parasents("sentence", paras[p])
            IN  Flatten([k \in 1..Len(sents) |-> Split(sents[k], <<" ">>)])])

\* C4: for every committed revision R, the walk of iterate_revision_tokens
\* yields one word per token of R's text, in textual order, each with the
\* text of its token.
C4_TokensOfRevision ==
    \A id \in DOMAIN revisions_by_id :
        WordValues(iterate_revision_tokens(Analysis, revisions_by_id[id]))
          = TokensOfText(revisions_by_id[id].text)

\* the third revision is committed, with words matched by the diff, words
\* of a matched paragraph and new words
C4_Witness ==
    /\ Len(ordered_revisions) = 3
    /\ revisions[revision_curr.index + 1].original_adds > 0
    /\ Len(iterate_revision_tokens(Analysis, revision_curr))
          > revisions[revision_curr.index + 1].original_adds

\* C5: after each input revision has been processed (committed, rejected
\* before or during matching, or skipped), no paragraph, sentence or word has
\* its matched_in_current flag set.
C5_NoFlagLeft ==
    /\ \A i \in 1..Len(paragraphs) : ~paragraphs[i].matched_in_current
    /\ \A i \in 1..Len(sentences) : ~sentences[i].matched_in_current
    /\ \A i \in 1..Len(words) : ~words[i].matched_in_current

\* a revision was rejected during matching after one of its paragraphs was
\* matched with a paragraph of the previous revision
C5_Witness ==
    /\ last.outcome = "spam_matching"
    /\ ordered_revisions # <<>>
    /\ \E i \in 1..Len(revisions[Len(revisions)].paragraphs_ordered) :
          revisions[Len(revisions)].paragraphs_ordered[i]
            \in Range(revisions[revision_curr.index + 1].paragraphs_ordered)

\* the revision committed last (the dummy before the first commit), and the
\* pointers of its paragraphs, sentences and words
Committed == ordered_revisions # <<>>

ParagraphsOf(a, revision) == a.revisions[revision.index + 1].paragraphs_ordered

SentencesOf(a, paras) ==
    Flatten([i \in 1..Len(paras) |-> a.paragraphs[paras[i] + 1].sentences_ordered])

PrevParagraphs == IF Committed THEN Range(ParagraphsOf(Analysis, revision_curr)) ELSE {}

PrevSentences ==
    IF Committed THEN Range(SentencesOf(Analysis, ParagraphsOf(Analysis, revision_curr)))
    ELSE {}

PrevWords ==
    IF Committed THEN Range(iterate_revision_tokens(Analysis, revision_curr)) ELSE {}

\* the lists of a word before a step (empty for a word the step allocates)
OutboundBefore(w) == IF w <= Len(words) THEN words[w].outbound ELSE <<>>

InboundBefore(w) == IF w <= Len(words) THEN words[w].inbound ELSE <<>>

\* the step commits a revision
Commits == last'.outcome = "committed" /\ Len(xml_revisions') = Len(xml_revisions) + 1

\* origin < outbound[1] < inbound[1] < outbound[2] < ...
Alternates(w) ==
    /\ Len(w.inbound) <= Len(w.outbound)
    /\ Len(w.outbound) <= Len(w.inbound) + 1
    /\ w.outbound # <<>> => w.origin_rev_id < w.outbound[1]
    /\ \A k \in 1..Len(w.inbound) : w.outbound[k] < w.inbound[k]
    /\ \A k \in 1..Len(w.inbound) :
          k + 1 <= Len(w.outbound) => w.inbound[k] < w.outbound[k + 1]

\* C6: the ID of a committed revision R is appended to the outbound list of
\* a word only if the word occurs in the tokens of Q, the revision committed
\* before R, and to its inbound list only if it does not; no other step
\* changes the lists; so the entries of a word alternate:
\* origin < outbound[1] < inbound[1] < outbound[2] < ...
C6_InboundOutbound ==
    [][\A w \in 1..Len(words') :
          /\ words'[w].outbound # OutboundBefore(w) =>
                /\ Commits
                /\ words'[w].outbound = Append(OutboundBefore(w), Last(ordered_revisions'))
                /\ (w - 1) \in PrevWords
          /\ words'[w].inbound # InboundBefore(w) =>
                /\ Commits
                /\ words'[w].inbound = Append(InboundBefore(w), Last(ordered_revisions'))
                /\ (w - 1) \notin PrevWords
          /\ Alternates(words'[w])]_vars

\* a word with one outbound entry and no inbound entry, and another word
\* with an inbound entry
C6_Witness ==
    /\ \E w \in 1..Len(words) : Len(words[w].outbound) = 1 /\ words[w].inbound = <<>>
    /\ \E w \in 1..Len(words) : words[w].inbound # <<>>

\* the paragraphs and sentences of the revision a step commits
NewParagraphs == Range(ParagraphsOf(Analysis', revision_curr'))

NewSentences == Range(SentencesOf(Analysis', ParagraphsOf(Analysis', revision_curr')))

NewWords == Range(iterate_revision_tokens(Analysis', revision_curr'))

\* a word absent from the revision committed before is back in the revision
\* the step commits: same index, the new ID appended to inbound, outbound kept
Reinstated(w) ==
    /\ w < Len(words)
    /\ w \in NewWords
    /\ (w \notin PrevWords) =>
          /\ words[w + 1].outbound # <<>>
          /\ words'[w + 1].outbound = words[w + 1].outbound
          /\ words'[w + 1].inbound = Append(words[w + 1].inbound, Last(ordered_revisions'))
          /\ words'[w + 1].origin_rev_id = words[w + 1].origin_rev_id
          /\ words'[w + 1].latest_rev_id = Last(ordered_revisions')

\* the texts of the paragraphs and of the sentences of a set of pointers
ParagraphValues(a, ptrs) == {a.paragraphs[p + 1].value : p \in ptrs}

SentenceValues(a, ptrs) == {a.sentences[p + 1].value : p \in ptrs}

\* the revisions x, y, x with the IDs 1, 2, 3, all committed
XYX ==
    /\ Len(xml_revisions) = 3
    /\ xml_revisions[1].text = Normal(<<"x">>, 0)
    /\ xml_revisions[2].text = Normal(<<"y">>, 0)
    /\ xml_revisions[3].text = Normal(<<"x">>, 0)
    /\ ordered_revisions = <<1, 2, 3>>

C7_Example ==
    XYX =>
      LET first == iterate_revision_tokens(Analysis, revisions_by_id[1])
          third == iterate_revision_tokens(Analysis, revisions_by_id[3])
      IN  /\ Len(first) = 1
          /\ third = first
          /\ words[first[1] + 1] =
                [WordAnalysis_new(<<"x">>, 1) EXCEPT
                    !.latest_rev_id = 3, !.outbound = <<2>>, !.inbound = <<3>>]

\* C7 as stated (with its example): every word removed earlier whose paragraph or sentence text
\* is in the committed revision, and was not in the revision committed
\* before, is reinstated (texts held by one paragraph or sentence only)
C7_ReinstatedByText ==
    [][/\ C7_Example'
       /\ Commits =>
        /\ \A p \in 0..(Len(paragraphs) - 1) :
              (/\ MapGet(paragraphs_ht, paragraphs[p + 1].value) = <<p>>
               /\ paragraphs[p + 1].value \in ParagraphValues(Analysis', NewParagraphs)
               /\ paragraphs[p + 1].value \notin ParagraphValues(Analysis, PrevParagraphs))
              => \A w \in Range(iterate_words_in_paragraphs(Analysis, <<p>>)) :
                    (w \notin PrevWords) => Reinstated(w)
        /\ \A t \in 0..(Len(sentences) - 1) :
              (/\ MapGet(sentences_ht, sentences[t + 1].value) = <<t>>
               /\ sentences[t + 1].value \in SentenceValues(Analysis', NewSentences)
               /\ sentences[t + 1].value \notin SentenceValues(Analysis, PrevSentences))
              => \A w \in Range(iterate_words_in_sentences(Analysis, <<t>>)) :
                    (w \notin PrevWords) => Reinstated(w)]_vars

\* C7: the words of a paragraph or sentence that a committed revision takes
\* over from an earlier revision, and that the revision committed before
\* does not hold, keep their word index; those absent from the revision
\* committed before get the new ID appended to inbound and keep their
\* outbound list; after x, y, x with the IDs 1, 2, 3 the word of revision 3
\* is the word of revision 1, with origin 1, latest 3, outbound <<2>>,
\* inbound <<3>>
C7_Reinstated ==
    [][/\ C7_Example'
       /\ Commits =>
            /\ \A p \in NewParagraphs \ PrevParagraphs :
                  p < Len(paragraphs) =>
                    \A w \in Range(iterate_words_in_paragraphs(Analysis, <<p>>)) :
                        Reinstated(w)
            /\ \A t \in NewSentences \ PrevSentences :
                  t < Len(sentences) =>
                    \A w \in Range(iterate_words_in_sentences(Analysis, <<t>>)) :
                        Reinstated(w)]_vars

\* x, y, x committed
C7_Witness == XYX

\* the revision a step reads
Read == xml_revisions'[Len(xml_revisions')]

Reads == Len(xml_revisions') = Len(xml_revisions) + 1

\* C8: committing a revision with the text of the revision committed before
\* allocates no paragraph, sentence or word, gives the new revision the
\* paragraph pointers of the previous one in the same order and an
\* original_adds of 0, and changes nothing of any word except the
\* latest_rev_id of the words of the revision, which becomes the new ID
C8_IdenticalText ==
    [][(Commits /\ Committed /\ Read.text = xml_revisions[revision_curr.id].text) =>
        /\ Len(paragraphs') = Len(paragraphs)
        /\ Len(sentences') = Len(sentences)
        /\ Len(words') = Len(words)
        /\ ParagraphsOf(Analysis', revision_curr') = ParagraphsOf(Analysis, revision_curr)
        /\ revisions'[revision_curr'.index + 1].original_adds = 0
        /\ \A w \in 1..Len(words) :
              words'[w] = IF (w - 1) \in PrevWords
                          THEN [words[w] EXCEPT !.latest_rev_id = Read.id]
                          ELSE words[w]]_vars

\* the text "a; b" committed twice in a row, after another revision
C8_Witness ==
    /\ Len(ordered_revisions) = 3
    /\ xml_revisions[2].text = Normal(<<"a", ";", " ", "b">>, 0)
    /\ xml_revisions[3].text = xml_revisions[2].text
    /\ xml_revisions[1].text # xml_revisions[2].text

\* the length in code points of the original text of the revision that
\* analyse_page holds as its current one (0 for the dummy)
LengthBefore ==
    IF revision_curr.id = 0 THEN 0
    ELSE text_as_str_chars_count(xml_revisions[revision_curr.id].text)

LengthRead == Len(Read.text.body) + Read.text.pad

C10_LengthOfLastCommitted ==
    (last.outcome = "spam_before" /\ last.deletion) =>
        /\ Committed
        /\ last.id_prev = Last(ordered_revisions)

\* the step rejects a revision, before or during matching
Rejects == Reads /\ last'.outcome \in {"spam_before", "spam_matching"}

\* C11: every rejection puts the hash of the revision into spam_hashes,
\* no hash ever leaves it, and a revision with Normal text whose hash is in
\* spam_hashes is rejected at once: its ID is appended to spam_ids, nothing
\* is matched or allocated, whatever its comment and minor flag
C11_SpamHashes ==
    [][/\ spam_hashes \subseteq spam_hashes'
       /\ Rejects => rev_hash_of(Read) \in spam_hashes'
       /\ (Reads /\ Read.text.kind = "Normal" /\ rev_hash_of(Read) \in spam_hashes) =>
            /\ last'.outcome = "spam_before"
            /\ spam_ids' = Append(spam_ids, Read.id)
            /\ UNCHANGED <<revisions, paragraphs, sentences, words, ordered_revisions,
                           revisions_by_id, revision_curr, paragraphs_ht, sentences_ht>>]_vars

\* a commented minor revision rejected for the Sha1 hash of a revision
\* rejected during matching
C11_Witness ==
    /\ last.outcome = "spam_before"
    /\ last.hash_known
    /\ Last(xml_revisions).comment /\ Last(xml_revisions).minor
    /\ Last(xml_revisions).sha1 = Some("h")
    /\ Len(spam_ids) = 2

\* the tokens of the sentences a step allocates: text_curr of the word
\* matching (a sentence is allocated exactly when it is unmatched)
NewText ==
    Flatten([i \in 1..(Len(sentences') - Len(sentences)) |->
        Split(sentences'[Len(sentences) + i].value, <<" ">>)])

StopTokens ==
    { <<"<">>, <<">">>, <<"t", "r">>, <<"t", "d">>, <<"[">>, <<"]">>, <<"\"">>, <<"*">>,
      <<"=", "=">>, <<"{">>, <<"}">>, <<"|">>, <<"-">> }

\* the step runs the matcher on a revision
Matches_ == Reads /\ last'.outcome \in {"committed", "spam_matching"}

\* C12: when the word matching has a non-empty text_curr, the revision is
\* rejected iff the occurrences of the tokens outside the stop set, divided
\* by the number of distinct such tokens, exceed 20 (no such token: 0, no
\* rejection; exactly 20: no rejection), and a rejection allocates no word
C12_TokenDensity ==
    [][(Matches_ /\ NewText # <<>>) =>
        LET counted == Cardinality({i \in 1..Len(NewText) : NewText[i] \notin StopTokens})
            distinct == Cardinality(Range(NewText) \ StopTokens)
        IN  /\ (last'.outcome = "spam_matching") <=> (counted > 20 * distinct)
            /\ last'.outcome = "spam_matching" => Len(words') = Len(words)]_vars

\* 20 times "c" committed, 21 times "[" committed, "[" and 21 times "a" rejected
C12_Witness ==
    /\ Len(xml_revisions) = 3
    /\ xml_revisions[1].text = Normal(Body20, 0)
    /\ xml_revisions[2].text = Normal(Brackets21, 0)
    /\ xml_revisions[3].text = Normal(<<"[", " ">> \o Body21, 0)
    /\ ordered_revisions = <<1, 2>>
    /\ spam_ids = <<3>>
    /\ last.outcome = "spam_matching"

\* C13: a rejection during matching leaves the four arenas at the lengths
\* they had before the revision was processed
C13_ArenasRolledBack ==
    [][(Reads /\ last'.outcome = "spam_matching") =>
        /\ Len(revisions') = Len(revisions)
        /\ Len(paragraphs') = Len(paragraphs)
        /\ Len(sentences') = Len(sentences)
        /\ Len(words') = Len(words)]_vars

\* the consumed revisions whose text is Normal and empty
EmptyIds ==
    {xml_revisions[i].id : i \in {j \in 1..Len(xml_revisions) :
                                     xml_revisions[j].text = Normal(<<>>, 0)}}

\* C14: a revision with Normal, empty text is skipped like a Deleted one:
\* its ID is in neither ordered_revisions nor spam_ids, it is never
\* revision_curr, and a page of only empty or Deleted revisions gives
\* Err(NoValidRevisions)
C14_EmptyTextSkipped ==
    /\ \A id \in EmptyIds :
          /\ id \notin Range(ordered_revisions)
          /\ id \notin Range(spam_ids)
          /\ revision_curr.id # id
    /\ (/\ result # "running"
        /\ \A i \in 1..Len(xml_revisions) :
              xml_revisions[i].text \in {Deleted, Normal(<<>>, 0)})
       => result = "NoValidRevisions"

\* the IDs of the revisions read so far increase strictly
IncreasingIds ==
    \A i \in 1..Len(xml_revisions), j \in 1..Len(xml_revisions) :
        i < j => xml_revisions[i].id < xml_revisions[j].id

\* C15 as stated: when analyse_page returns Ok, every word has
\* origin_rev_id <= latest_rev_id (the IDs being unique)
C15_OriginBeforeLatestUnique ==
    result = "Ok" => \A w \in 1..Len(words) : words[w].origin_rev_id <= words[w].latest_rev_id

\* C15: when analyse_page returns Ok on revisions with strictly increasing
\* IDs, every word has origin_rev_id <= latest_rev_id
C15_OriginBeforeLatest ==
    (result = "Ok" /\ IncreasingIds) =>
        \A w \in 1..Len(words) : words[w].origin_rev_id <= words[w].latest_rev_id

\* Ok on increasing IDs with a gap, and a word seen again after its origin
C15_Witness ==
    /\ result = "Ok"
    /\ IncreasingIds
    /\ Len(xml_revisions) = 3
    /\ Len(ordered_revisions) = 3
    /\ ordered_revisions[3] = MaxIdRevs
    /\ \E w \in 1..Len(words) : words[w].origin_rev_id < words[w].latest_rev_id

\* the list is in ascending order
Ascending(list) == \A i \in 1..Len(list), j \in 1..Len(list) : i < j => list[i] <= list[j]

\* the inbound and the outbound list of every word are ascending and hold
\* only IDs of committed revisions
ListsAscendingAndCommitted ==
    \A w \in 1..Len(words) :
        /\ Ascending(words[w].inbound)
        /\ Ascending(words[w].outbound)
        /\ Range(words[w].inbound) \subseteq Range(ordered_revisions)
        /\ Range(words[w].outbound) \subseteq Range(ordered_revisions)

\* C16 as stated: when analyse_page returns Ok, the inbound and the outbound
\* list of every word are sorted in ascending order and contain only IDs of
\* committed revisions (the IDs being unique)
C16_ListsSortedUnique == result = "Ok" => ListsAscendingAndCommitted

\* C16: when analyse_page returns Ok on revisions with strictly increasing
\* IDs, the inbound and the outbound list of every word are sorted in
\* ascending order and contain only IDs of committed revisions
C16_ListsSorted == (result = "Ok" /\ IncreasingIds) => ListsAscendingAndCommitted

\* Ok on increasing IDs, a rejected revision among them, and a word that was
\* removed, reintroduced and removed again
C16_Witness ==
    /\ result = "Ok"
    /\ IncreasingIds
    /\ \E w \in 1..Len(words) : Len(words[w].outbound) = 2 /\ Len(words[w].inbound) = 1

\* Ok on increasing IDs with a rejected revision between a removal and a
\* reintroduction of a word
C16_WitnessSpam ==
    /\ result = "Ok"
    /\ IncreasingIds
    /\ spam_ids # <<>>
    /\ \E w \in 1..Len(words) :
          /\ Len(words[w].outbound) = 1 /\ Len(words[w].inbound) = 1
          /\ \E i \in 1..Len(spam_ids) :
                words[w].outbound[1] < spam_ids[i] /\ spam_ids[i] < words[w].inbound[1]

\* list s is a prefix of list t
IsPrefix(s, t) == Len(s) <= Len(t) /\ \A i \in 1..Len(s) : t[i] = s[i]

\* C17: the analysis is one-pass: reading one more revision leaves spam_ids
\* and ordered_revisions as prefixes of the new lists, keeps every word
\* allocated so far with its origin, and only appends to its inbound and
\* outbound lists
C17_OnePass ==
    [][/\ IsPrefix(spam_ids, spam_ids')
       /\ IsPrefix(ordered_revisions, ordered_revisions')
       /\ Len(words) <= Len(words')
       /\ \A w \in 1..Len(words) :
             /\ words'[w].value = words[w].value
             /\ words'[w].origin_rev_id = words[w].origin_rev_id
             /\ IsPrefix(words[w].inbound, words'[w].inbound)
             /\ IsPrefix(words[w].outbound, words'[w].outbound)]_vars

\* three revisions read, one rejected and two committed, and a word of the
\* first commit marked as removed by the second
C17_Witness ==
    /\ Len(xml_revisions) = 3
    /\ Len(spam_ids) = 1
    /\ Len(ordered_revisions) = 2
    /\ \E w \in 1..Len(words) :
          /\ words[w].origin_rev_id = ordered_revisions[1]
          /\ words[w].outbound = <<ordered_revisions[2]>>

\* original_adds of the revision in the state after a step
OriginalAdds(revision) == revisions'[revision.index + 1].original_adds

\* the words with this origin in the state after a step
WordsOfOrigin(id) == {w \in 1..Len(words') : words'[w].origin_rev_id = id}

\* C18: original_adds of a committed revision R is the number of words
\* allocated while R was processed and the number of words with the origin
\* R.id, now and after every later step; for the first committed revision it
\* is the number of the tokens of its text
C18_OriginalAdds ==
    [][/\ Commits =>
            /\ OriginalAdds(revision_curr') = Len(words') - Len(words)
            /\ ~Committed => OriginalAdds(revision_curr')
                                = Len(TokensOfText(revision_curr'.text))
       /\ \A id \in DOMAIN revisions_by_id' :
            OriginalAdds(revisions_by_id'[id]) = Cardinality(WordsOfOrigin(id))]_vars

\* a first commit of three tokens in two paragraphs, a rejected revision,
\* and a second commit that adds one word to two matched ones
C18_Witness ==
    /\ Len(ordered_revisions) = 2
    /\ spam_ids # <<>>
    /\ revisions[revisions_by_id[ordered_revisions[1]].index + 1].original_adds = 3
    /\ revisions[revision_curr.index + 1].original_adds = 1
    /\ Len(iterate_revision_tokens(Analysis, revision_curr)) = 3

\* the place of a committed revision in ordered_revisions after a step
PlaceOf(id) == CHOOSE i \in 1..Len(ordered_revisions') : ordered_revisions'[i] = id

\* C19: a rejected revision leaves the length of the words arena as it
\* was; after every step the origin and the latest revision of every word
\* are committed revisions, and the words lie in the arena in the order in
\* which their origins were committed
C19_NoWordOfRejected ==
    [][/\ Rejects => Len(words') = Len(words)
       /\ \A w \in 1..Len(words') :
            /\ words'[w].origin_rev_id \in Range(ordered_revisions')
            /\ words'[w].latest_rev_id \in Range(ordered_revisions')
       /\ \A v \in 1..Len(words'), w \in 1..Len(words') :
            v < w => PlaceOf(words'[v].origin_rev_id) <= PlaceOf(words'[w].origin_rev_id)]_vars

\* a commit, a rejection by the matcher that left its paragraph in the
\* arena, and a commit that adds a word and keeps a word of the first
C19_Witness ==
    /\ Len(xml_revisions) = 3
    /\ ordered_revisions = <<xml_revisions[1].id, xml_revisions[3].id>>
    /\ spam_ids = <<xml_revisions[2].id>>
    /\ \E p \in 1..Len(paragraphs) : paragraphs[p].value = Body21
    /\ \E w \in 1..Len(words) : words[w].origin_rev_id = xml_revisions[3].id
    /\ \E w \in 1..Len(words) :
          /\ words[w].origin_rev_id = xml_revisions[1].id
          /\ words[w].latest_rev_id = xml_revisions[3].id

\* C20: when a revision R is committed after a committed revision Q, a word
\* of Q that is not in R gets R.id appended once to its outbound list, a
\* word of R that is not in Q and was allocated before gets R.id appended
\* once to its inbound list, and a word of both keeps both lists
C20_InboundOutboundOfCommit ==
    [][(Commits /\ Committed) =>
        \A w \in 1..Len(words) :
            /\ ((w - 1) \in PrevWords /\ (w - 1) \notin NewWords) =>
                  /\ words'[w].outbound = Append(words[w].outbound, revision_curr'.id)
                  /\ words'[w].inbound = words[w].inbound
            /\ ((w - 1) \notin PrevWords /\ (w - 1) \in NewWords) =>
                  /\ words'[w].inbound = Append(words[w].inbound, revision_curr'.id)
                  /\ words'[w].outbound = words[w].outbound
            /\ ((w - 1) \in PrevWords /\ (w - 1) \in NewWords) =>
                  /\ words'[w].inbound = words[w].inbound
                  /\ words'[w].outbound = words[w].outbound]_vars

\* three commits: a word removed by the second and back in the third, next
\* to a word that is in all three
C20_Witness ==
    /\ Len(ordered_revisions) = 3
    /\ \E w \in 1..Len(words) :
          /\ words[w].outbound = <<ordered_revisions[2]>>
          /\ words[w].inbound = <<ordered_revisions[3]>>
    /\ \E w \in 1..Len(words) :
          /\ words[w].origin_rev_id = ordered_revisions[1]
          /\ words[w].latest_rev_id = ordered_revisions[3]
          /\ words[w].outbound = <<>>
          /\ words[w].inbound = <<>>

TriedBefore(cands, ptr) ==
    {cands[k] : k \in {n \in 1..Len(cands) : \A j \in 1..n : cands[j] # ptr}}

\* a word of the paragraph, or of the sentence, occurs in the new revision
TouchedParagraph(p) == Range(iterate_words_in_paragraphs(Analysis, <<p>>)) \cap NewWords # {}

TouchedSentence(t) == Range(iterate_words_in_sentences(Analysis, <<t>>)) \cap NewWords # {}

\* the paragraphs of the new revision, those of them it allocated, and the
\* sentences of these, in the order of the text
CurrParagraphs == ParagraphsOf(Analysis', revision_curr')

UnmatchedParagraphsCurr == SelectSeq(CurrParagraphs, LAMBDA p : p >= Len(paragraphs))

UnmatchedSentencesOfCurr == SentencesOf(Analysis', UnmatchedParagraphsCurr)

\* the paragraphs of the previous revision that the new revision does not reuse
UnmatchedParagraphsPrev ==
    SelectSeq(ParagraphsOf(Analysis, revision_curr), LAMBDA p : p \notin Range(CurrParagraphs))

\* C22: when a revision is committed after another, each of its paragraphs
\* is the first acceptable paragraph of that text in the previous revision,
\* in insertion order: every candidate of the previous revision passed over
\* was used earlier in the revision or has a word in it; a paragraph from
\* the global index or a fresh one is taken only when all candidates of the
\* previous revision were passed over.  The same holds for the sentences
\* of the new paragraphs and the unmatched paragraphs of the previous revision
C22_PreviousParentsFirst ==
    [][(Commits /\ Committed) =>
        /\ \A i \in 1..Len(CurrParagraphs) :
              \A c \in TriedBefore(find_in_parents(Analysis, "paragraph", <<revision_curr>>,
                                                   paragraphs'[CurrParagraphs[i] + 1].value),
                                   CurrParagraphs[i]) :
                  c \in Range(SubSeq(CurrParagraphs, 1, i - 1)) \/ TouchedParagraph(c)
        /\ \A i \in 1..Len(UnmatchedSentencesOfCurr) :
              \A c \in TriedBefore(find_in_parents(Analysis, "sentence", UnmatchedParagraphsPrev,
                                                   sentences'[UnmatchedSentencesOfCurr[i] + 1].value),
                                   UnmatchedSentencesOfCurr[i]) :
                  c \in Range(SubSeq(UnmatchedSentencesOfCurr, 1, i - 1)) \/ TouchedSentence(c)]_vars

\* the previous revision holds a paragraph "a b" that is newer than the
\* first one of the global index, and the new revision reuses the newer one
C22_Witness ==
    /\ Len(ordered_revisions) = 4
    /\ \E p \in 1..Len(paragraphs) :
          /\ paragraphs[p].value = <<"a", " ", "b">>
          /\ MapGet(paragraphs_ht, paragraphs[p].value)[1] # p - 1
          /\ ParagraphsOf(Analysis, revision_curr) = <<p - 1>>
          /\ (p - 1) \in Range(ParagraphsOf(Analysis, revisions_by_id[ordered_revisions[3]]))

\* the analysis in the middle of a matching pass, after the fragment ptr of
\* an earlier revision was accepted for a fragment of the current text
AfterAccepting(K, ptr) ==
    mark_all_children_matched(set_matched_in_current(Analysis, K, ptr, TRUE), K, ptr)

\* the analysis at the start of a pass and after one acceptance
MidPass ==
    {Analysis} \cup {AfterAccepting("paragraph", p - 1) : p \in 1..Len(paragraphs)}
               \cup {AfterAccepting("sentence", t - 1) : t \in 1..Len(sentences)}

Kinds == {"paragraph", "sentence"}

\* the hashes of the global index of the kind
IndexedHashes(K) == IF IS_SENTENCE(K) THEN DOMAIN sentences_ht ELSE DOMAIN paragraphs_ht

\* the parent that receives the fragments of the current text
ParentCurr(K) == IF IS_SENTENCE(K) THEN Len(paragraphs) - 1 ELSE revision_curr

\* the ordered child list of that parent
OrderedOf(a, K) ==
    IF IS_SENTENCE(K) THEN a.paragraphs[ParentCurr(K) + 1].sentences_ordered
    ELSE a.revisions[ParentCurr(K).index + 1].paragraphs_ordered

\* the loop state of analyse_parasents_in_revgraph at the analysis a
PassAt(a) ==
    [a |-> a, unmatched_parasents_curr |-> <<>>, unmatched_parasents_prev |-> <<>>,
     matched_parasents_prev |-> <<>>, total_parasents |-> 0]

\* the fragment accepted among the candidates of the hash, and the loop
\* state after the fragment text was handled once and twice
Accepted(a, K, hash) ==
    find_matching_parasent(a, K, find_in_any_previous_revision(a, K, hash), <<>>)

HandledOnce(a, K, hash) == match_parasent(PassAt(a), K, ParentCurr(K), <<>>, hash)

HandledTwice(a, K, hash) ==
    match_parasent(HandledOnce(a, K, hash), K, ParentCurr(K), <<>>, hash)

\* C23: a fragment is accepted only if its flag is false and none of its
\* words is flagged; on acceptance it is flagged and recorded in
\* matched-prev, its sentences and words are flagged, its pointer is
\* appended to the ordered list of the current parent, and the same text
\* handled again gets another pointer
C23_AcceptedOnce ==
    \A a \in MidPass, K \in Kinds :
        \A hash \in IndexedHashes(K) :
            LET r == Accepted(a, K, hash)
                st == HandledOnce(a, K, hash)
                again == HandledTwice(a, K, hash)
            IN  r.found # NoPtr =>
                  /\ ~matched_in_current(a, K, r.found)
                  /\ \A w \in Range(iterate_words(a, K, r.found)) :
                        ~a.words[w + 1].matched_in_current
                  /\ matched_in_current(st.a, K, r.found)
                  /\ r.found \in Range(st.matched_parasents_prev)
                  /\ \A w \in Range(iterate_words(a, K, r.found)) :
                        st.a.words[w + 1].matched_in_current
                  /\ ~IS_SENTENCE(K) =>
                        \A t \in Range(a.paragraphs[r.found + 1].sentences_ordered) :
                            st.a.sentences[t + 1].matched_in_current
                  /\ OrderedOf(st.a, K) = Append(OrderedOf(a, K), r.found)
                  /\ st.unmatched_parasents_curr = <<>>
                  /\ Len(OrderedOf(again.a, K)) = Len(OrderedOf(a, K)) + 2
                  /\ Last(OrderedOf(again.a, K)) # r.found

\* after the acceptance of one paragraph, a candidate of the same text is
\* passed over and a later one is accepted
C23_Witness ==
    \E a \in MidPass : \E hash \in IndexedHashes("paragraph") :
        /\ Accepted(a, "paragraph", hash).found # NoPtr
        /\ Accepted(a, "paragraph", hash).found # paragraphs_ht[hash][1]

\* the candidate is not flagged, has a word, and all its words are flagged
AllWordsFlagged(a, K, ptr) ==
    /\ ~matched_in_current(a, K, ptr)
    /\ iterate_words(a, K, ptr) # <<>>
    /\ \A w \in Range(iterate_words(a, K, ptr)) : a.words[w + 1].matched_in_current

\* the previous parents whose fragments the closing loop of a pass visits
ParentsPrev(K) ==
    IF IS_SENTENCE(K) THEN [p \in 1..Len(paragraphs) |-> p - 1] ELSE <<revision_curr>>

\* C24: a candidate that is not flagged and whose words are all flagged is
\* flagged and recorded in matched-prev when the scan reaches it, is not the
\* fragment returned, and is not among the unmatched previous fragments of
\* the pass; when the scan accepts no candidate the fragment is allocated
\* fresh in the current parent
C24_AllWordsFlagged ==
    \A a \in MidPass, K \in Kinds :
        \A hash \in IndexedHashes(K) :
            LET cands == find_in_any_previous_revision(a, K, hash)
                r == Accepted(a, K, hash)
                st == HandledOnce(a, K, hash)
                closed == unmatched_prev_of(st, K, ParentsPrev(K))
            IN  /\ \A c \in TriedBefore(cands, r.found) :
                      AllWordsFlagged(a, K, c) =>
                          /\ matched_in_current(r.a, K, c)
                          /\ c \in Range(r.matched)
                          /\ c \in Range(st.matched_parasents_prev)
                          /\ c \notin Range(closed.unmatched_parasents_prev)
                /\ r.found = NoPtr =>
                      /\ ArenaLen(st.a, K) = ArenaLen(a, K) + 1
                      /\ st.unmatched_parasents_curr = <<ArenaLen(a, K)>>
                      /\ OrderedOf(st.a, K) = Append(OrderedOf(a, K), ArenaLen(a, K))
                      /\ IF IS_SENTENCE(K)
                         THEN st.a.sentences[ArenaLen(a, K) + 1].value = hash
                         ELSE st.a.paragraphs[ArenaLen(a, K) + 1].value = hash

\* a paragraph whose only word is flagged through another paragraph is
\* passed over, and the text is allocated fresh
C24_Witness ==
    \E a \in MidPass : \E hash \in IndexedHashes("paragraph") :
        /\ Accepted(a, "paragraph", hash).found = NoPtr
        /\ \E c \in Range(find_in_any_previous_revision(a, "paragraph", hash)) :
              AllWordsFlagged(a, "paragraph", c)

\* the sentences a step allocates, and the words allocated before the step
\* that it puts into them: the words bound by an Equal operation of the diff
AllocatedSentences == [i \in 1..(Len(sentences') - Len(sentences)) |-> Len(sentences) + i - 1]

BoundByEqual ==
    {w \in Range(iterate_words_in_sentences(Analysis', AllocatedSentences)) : w < Len(words)}

\* C25: a word bound to a token by an Equal operation of the diff when a
\* revision R is committed is a word of the previous revision with the
\* text of the token, keeps its record, has latest_rev_id R.id afterwards,
\* and gets no entry in inbound (nor in outbound)
C25_BoundByEqual ==
    [][Commits =>
        \A w \in BoundByEqual :
            /\ w \in PrevWords
            /\ words'[w + 1].value = words[w + 1].value
            /\ words'[w + 1].origin_rev_id = words[w + 1].origin_rev_id
            /\ words'[w + 1].latest_rev_id = revision_curr'.id
            /\ words'[w + 1].inbound = words[w + 1].inbound
            /\ words'[w + 1].outbound = words[w + 1].outbound]_vars

\* a sentence allocated by the second commit holds a word it added and,
\* after it, a word of the first commit that has no inbound entry
C25_Witness ==
    /\ Len(ordered_revisions) >= 2
    /\ \E t \in 1..Len(sentences) :
          /\ Len(sentences[t].words_ordered) = 2
          /\ words[sentences[t].words_ordered[2] + 1].origin_rev_id = ordered_revisions[1]
          /\ words[sentences[t].words_ordered[1] + 1].origin_rev_id = ordered_revisions[2]
          /\ words[sentences[t].words_ordered[2] + 1].latest_rev_id = ordered_revisions[2]
          /\ words[sentences[t].words_ordered[2] + 1].inbound = <<>>

\* The word matching of the next revision, taken apart.  m is the result of
\* the passes over paragraphs and sentences for the input revision, hunks
\* what the diff library reports, k the place of a token in the first
\* unmatched sentence.
MatchableInputs ==
    {NextInput(shape) : shape \in {x \in LongShapes : x.text.kind = "Normal"}}

FragmentsOf(xml_revision) ==
    determine_authorship_fragments(allocate_revision(Analysis, xml_revision))

WordsPrev(m) == unmatched_words_prev_of(m.a, m.unmatched_sentences_prev)

FirstSentence(m) == m.unmatched_sentences_curr[1]

FirstTokens(m) == unmatched_sentence_curr_splitted(m.a, m.unmatched_sentences_curr)[1]

ReachesScan(m) ==
    /\ m.unmatched_sentences_curr # <<>>
    /\ reaches_diff(text_prev_of(m.a, m.unmatched_sentences_prev),
                    text_curr_of(m.a, m.unmatched_sentences_curr), m.possible_vandalism)

ScanStart(m, hunks) ==
    [a |-> m.a,
     diff |-> imara_diff(text_prev_of(m.a, m.unmatched_sentences_prev),
                         text_curr_of(m.a, m.unmatched_sentences_curr), hunks),
     matched_words_prev |-> <<>>]

BeforeScan(m, hunks, k) ==
    match_words_of_sentence(ScanStart(m, hunks), FirstSentence(m),
                            SubSeq(FirstTokens(m), 1, k - 1), WordsPrev(m))

AfterScan(m, hunks, k) ==
    scan_diff(BeforeScan(m, hunks, k), 1, FirstTokens(m)[k], FirstSentence(m), WordsPrev(m))

\* the operations a scan consumed, by tag, and the words it flagged
Consumed(b, r) == {i \in 1..Len(b.diff) : b.diff[i] # None /\ r.diff[i] = None}

ConsumedAs(b, r, tags) == {i \in Consumed(b, r) : b.diff[i][1].tag \in tags}

FlaggedByScan(b, r) ==
    {w \in 0..(Len(b.a.words) - 1) :
        ~b.a.words[w + 1].matched_in_current /\ r.a.words[w + 1].matched_in_current}

\* the previous words a scan for the token can take, in the order of the search
Takeable(b, unmatched_words_prev, token) ==
    SelectSeq(unmatched_words_prev,
              LAMBDA w : b.a.words[w + 1].value = token /\ ~b.a.words[w + 1].matched_in_current)

\* the word the scan put into the sentence
BoundWord(r, sentence) == Last(r.a.sentences[sentence + 1].words_ordered)

\* one scan, from the state b to the state r
ScanAsClaimed(b, r, token, sentence, unmatched_words_prev, id) ==
    LET bound == BoundWord(r, sentence)
        deleted == FlaggedByScan(b, r) \ {bound}
        binds == ConsumedAs(b, r, {"Equal", "Insert"})
        takeable == Takeable(b, unmatched_words_prev, token)
    IN  /\ r.a.sentences[sentence + 1].words_ordered
              = Append(b.a.sentences[sentence + 1].words_ordered, bound)
        /\ r.a.words[bound + 1].value = token
        /\ \A i \in Consumed(b, r) : b.diff[i][1].value = token
        /\ Cardinality(binds) <= 1
        /\ \A i \in binds : \A j \in Consumed(b, r) : j <= i
        /\ (bound < Len(b.a.words)) <=> (ConsumedAs(b, r, {"Equal"}) # {})
        /\ bound < Len(b.a.words) => bound \in FlaggedByScan(b, r)
        /\ Cardinality(deleted) = Cardinality(ConsumedAs(b, r, {"Delete"}))
        /\ Cardinality(FlaggedByScan(b, r)) <= Len(takeable)
        /\ FlaggedByScan(b, r) = Range(SubSeq(takeable, 1, Cardinality(FlaggedByScan(b, r))))
        /\ \A w \in deleted :
              /\ r.a.words[w + 1].outbound = Append(b.a.words[w + 1].outbound, id)
              /\ r.a.words[w + 1].inbound = b.a.words[w + 1].inbound
              /\ r.a.words[w + 1].latest_rev_id = b.a.words[w + 1].latest_rev_id
              /\ w \in Range(r.matched_words_prev)
        /\ \A i \in 1..Len(r.diff) :
              (/\ r.diff[i] # None
               /\ r.diff[i][1].value = token
               /\ \A j \in binds : i < j) =>
                  /\ r.diff[i][1].tag # "Insert"
                  /\ Cardinality(FlaggedByScan(b, r)) = Len(takeable)

\* the words flagged by Delete operations in the whole word matching
DeletedByDiff(m, wr) ==
    Range(wr.matched_words_prev)
      \ Range(iterate_words_in_sentences(wr.a, m.unmatched_sentences_curr))

\* after the outbound sweep and the bookkeeping (st is the result of
\* determine_authorship)
SweepAsClaimed(m, wr, st, id) ==
    \A w \in DeletedByDiff(m, wr) :
        /\ st.a.words[w + 1].outbound = Append(words[w + 1].outbound, id)
        /\ st.a.words[w + 1].inbound = words[w + 1].inbound
        /\ st.a.words[w + 1].latest_rev_id = words[w + 1].latest_rev_id
        /\ ~st.a.words[w + 1].matched_in_current
        /\ w \notin Range(iterate_revision_tokens(st.a, st.a.revision_curr))

WordMatchingAsClaimed(m, id) ==
    ReachesScan(m) =>
        \A hunks \in diff_choices(m) :
            /\ \A k \in 1..Len(FirstTokens(m)) :
                  ScanAsClaimed(BeforeScan(m, hunks, k), AfterScan(m, hunks, k),
                                FirstTokens(m)[k], FirstSentence(m), WordsPrev(m), id)
            /\ SweepAsClaimed(m, words_result(m, hunks),
                              determine_authorship_words(m, hunks), id)

\* the next revision can be matched
Matchable(xml_revision) ==
    /\ InLoop
    /\ MoreLongInput
    /\ ~(hash_is_spam(xml_revision) \/ deletion_vandalism(xml_revision))

\* C26: a scan that meets a Delete operation with the value of its token
\* flags the first unflagged previous word of that value, appends the
\* current revision ID once to its outbound list, does not put it into the
\* sentence and goes on; the sweep and the bookkeeping add no second entry
\* and leave its latest_rev_id; a scan ends at its first Equal that finds a
\* word or at its first Insert, and a token that binds nothing gets a
\* fresh word
C26_DeleteCase ==
    \A xml_revision \in MatchableInputs :
        Matchable(xml_revision) =>
            WordMatchingAsClaimed(FragmentsOf(xml_revision), xml_revision.id)

\* a scan that consumes a Delete operation and then binds by an Equal one
ScanDeletesThenBinds(m) ==
    /\ ReachesScan(m)
    /\ \E hunks \in diff_choices(m) : \E k \in 1..Len(FirstTokens(m)) :
          /\ ConsumedAs(BeforeScan(m, hunks, k), AfterScan(m, hunks, k), {"Delete"}) # {}
          /\ ConsumedAs(BeforeScan(m, hunks, k), AfterScan(m, hunks, k), {"Equal"}) # {}

C26_Witness ==
    \E xml_revision \in MatchableInputs :
        Matchable(xml_revision) /\ ScanDeletesThenBinds(FragmentsOf(xml_revision))

\* the fragments with the value that a step appends to the arena, in order
AllocatedWith(before, after, value) ==
    SelectSeq([i \in 1..(Len(after) - Len(before)) |-> Len(before) + i - 1],
              LAMBDA ptr : after[ptr + 1].value = value)

\* the index after the step is the index before it, with the fragments the
\* step allocated appended under their values
IndexGrowsBy(ht, ht_after, before, after) ==
    /\ DOMAIN ht_after = DOMAIN ht \cup {after[i].value : i \in (Len(before) + 1)..Len(after)}
    /\ \A value \in DOMAIN ht_after :
          ht_after[value] = MapGet(ht, value) \o AllocatedWith(before, after, value)

\* C27: the global paragraph index and the global sentence index hold the
\* fragments allocated by committed revisions, each once and under its own
\* value, and nothing else: a commit appends the fragments it allocated,
\* every other step leaves both indices as they were
C27_GlobalIndices ==
    [][/\ Commits =>
            /\ IndexGrowsBy(paragraphs_ht, paragraphs_ht', paragraphs, paragraphs')
            /\ IndexGrowsBy(sentences_ht, sentences_ht', sentences, sentences')
       /\ ~Commits =>
            /\ paragraphs_ht' = paragraphs_ht
            /\ sentences_ht' = sentences_ht]_vars

\* the index holds two paragraphs under one value, and the arena holds a
\* paragraph of a rejected revision that the index does not hold
C27_Witness ==
    /\ \E value \in DOMAIN paragraphs_ht : Len(paragraphs_ht[value]) = 2
    /\ \E p \in 1..Len(paragraphs) : paragraphs[p].value \notin DOMAIN paragraphs_ht
    /\ \E t \in 1..Len(sentences) : sentences[t].value \notin DOMAIN sentences_ht

\* the places in ordered_revisions, after a step, of the revisions whose
\* token sequence holds the word
HoldersOf(w) ==
    {i \in 1..Len(ordered_revisions') :
        w \in Range(iterate_revision_tokens(Analysis', revisions_by_id'[ordered_revisions'[i]]))}

\* C28: after a commit of a revision R (the IDs being unique) the words
\* with latest_rev_id R.id are the words of R's token sequence; and after
\* every step latest_rev_id of a word is the ID of the committed revision
\* that held it last
C28_LatestIsLastHolder ==
    [][/\ Commits =>
            \A w \in 1..Len(words') :
                (words'[w].latest_rev_id = revision_curr'.id) <=> ((w - 1) \in NewWords)
       /\ \A w \in 1..Len(words') :
            /\ HoldersOf(w - 1) # {}
            /\ \A i \in HoldersOf(w - 1) :
                  (\A j \in HoldersOf(w - 1) : j <= i) =>
                      words'[w].latest_rev_id = ordered_revisions'[i]]_vars

\* three commits with IDs out of order: a word of the first is in the third
\* but not in the second, whose word stays behind
C28_Witness ==
    /\ Len(ordered_revisions) = 3
    /\ ordered_revisions[1] > ordered_revisions[3]
    /\ \E w \in 1..Len(words) :
          /\ words[w].origin_rev_id = ordered_revisions[1]
          /\ words[w].latest_rev_id = ordered_revisions[3]
          /\ words[w].inbound = <<ordered_revisions[3]>>
    /\ \E w \in 1..Len(words) : words[w].latest_rev_id = ordered_revisions[2]

\* no pointer occurs twice in the list
Distinct(list) == \A i \in 1..Len(list), j \in 1..Len(list) : list[i] = list[j] => i = j

\* C29: in every committed revision the paragraphs of paragraphs_ordered,
\* the sentences of these paragraphs and the words of the token sequence
\* are each pairwise distinct pointers
C29_NoPointerTwice ==
    \A id \in DOMAIN revisions_by_id :
        /\ Distinct(ParagraphsOf(Analysis, revisions_by_id[id]))
        /\ Distinct(SentencesOf(Analysis, ParagraphsOf(Analysis, revisions_by_id[id])))
        /\ Distinct(iterate_revision_tokens(Analysis, revisions_by_id[id]))

\* a committed revision with two paragraphs of the same text, one of them
\* older than the revision, and a committed revision with two words of the
\* same text, both older than the revision
C29_Witness ==
    /\ \E id \in DOMAIN revisions_by_id :
          LET paras == ParagraphsOf(Analysis, revisions_by_id[id])
          IN  /\ Len(paras) = 2
              /\ paragraphs[paras[1] + 1].value = paragraphs[paras[2] + 1].value
              /\ words[iterate_words_in_paragraphs(Analysis, <<paras[1]>>)[1] + 1].origin_rev_id # id
    /\ \E id \in DOMAIN revisions_by_id :
          LET tokens == iterate_revision_tokens(Analysis, revisions_by_id[id])
          IN  /\ Len(tokens) = 2
              /\ words[tokens[1] + 1].value = words[tokens[2] + 1].value
              /\ words[tokens[1] + 1].origin_rev_id # id
              /\ words[tokens[2] + 1].origin_rev_id # id

\* the words of the token sequence of the most recently committed revision
WordsOfLatest == Range(iterate_revision_tokens(Analysis, revisions_by_id[Last(ordered_revisions)]))

\* C30: once a revision is committed, the words of the token sequence of
\* the most recently committed revision are the words whose inbound and
\* outbound lists are equally long, and the outbound list of every other
\* word is one entry longer than its inbound list
C30_PresentIffEqualLength ==
    Committed =>
        \A w \in 1..Len(words) :
            /\ (w - 1) \in WordsOfLatest <=> Len(words[w].inbound) = Len(words[w].outbound)
            /\ (w - 1) \notin WordsOfLatest => Len(words[w].outbound) = Len(words[w].inbound) + 1

\* after three commits and a rejection the latest committed revision holds
\* a word that was removed and put back and lacks a word that was removed
C30_Witness ==
    /\ Len(ordered_revisions) = 3
    /\ spam_ids # <<>>
    /\ \E w \in 1..Len(words) : (w - 1) \in WordsOfLatest /\ Len(words[w].inbound) = 1
    /\ \E w \in 1..Len(words) : (w - 1) \notin WordsOfLatest /\ Len(words[w].outbound) = 1

\* C31: a step that reads a revision with Deleted text changes nothing of
\* the analysis: arenas, fragment indices, spam_ids, spam_hashes,
\* ordered_revisions, revisions_by_id, revision_curr, revision_prev and
\* at_least_one stay as they are, and once a revision is committed
\* revision_curr is still the last committed revision, the one the next
\* revision is compared with
C31_DeletedSkipped ==
    [][(Reads /\ Read.text.kind = "Deleted") =>
        /\ last'.outcome = "deleted"
        /\ UNCHANGED <<revisions, paragraphs, sentences, words, paragraphs_ht, sentences_ht,
                       spam_ids, spam_hashes, ordered_revisions, revisions_by_id,
                       revision_curr, revision_prev, at_least_one, result>>
        /\ Committed => revision_curr' = revisions_by_id[Last(ordered_revisions)]]_vars

\* a revision with Deleted text between two committed revisions
C31_Witness ==
    /\ Len(xml_revisions) = 3
    /\ xml_revisions[2].text.kind = "Deleted"
    /\ ordered_revisions = <<xml_revisions[1].id, xml_revisions[3].id>>
    /\ revision_prev # None
    /\ revision_prev[1].id = xml_revisions[1].id

\* the pointers held by a by-hash map
PointersOfMap(m) == UNION {Range(m[k]) : k \in DOMAIN m}

InArena(ptrs, arena) == \A ptr \in ptrs : 0 <= ptr /\ ptr < Len(arena)

\* every pointer of a child list, of a per-parent map, of a global index and
\* of revisions_by_id denotes an entry of its arena
PointersInBounds ==
    /\ \A r \in 1..Len(revisions) :
          /\ InArena(Range(revisions[r].paragraphs_ordered), paragraphs)
          /\ InArena(PointersOfMap(revisions[r].paragraphs_by_hash), paragraphs)
    /\ \A q \in 1..Len(paragraphs) :
          /\ InArena(Range(paragraphs[q].sentences_ordered), sentences)
          /\ InArena(PointersOfMap(paragraphs[q].sentences_by_hash), sentences)
    /\ \A t \in 1..Len(sentences) : InArena(Range(sentences[t].words_ordered), words)
    /\ InArena(PointersOfMap(paragraphs_ht), paragraphs)
    /\ InArena(PointersOfMap(sentences_ht), sentences)
    /\ InArena({revisions_by_id[id].index : id \in DOMAIN revisions_by_id}, revisions)
    /\ \A id \in DOMAIN revisions_by_id, other \in DOMAIN revisions_by_id :
          revisions_by_id[id].index = revisions_by_id[other].index => id = other

\* the entries a step appends to an arena
AppendedTo(before, after) == {ptr \in 0..(Len(after) - 1) : ptr >= Len(before)}

\* a step leaves the entries of the arenas in their places and puts the new
\* ones at the end, each under the pointer made for it
ArenasGrowAtTheEnd ==
    /\ Len(revisions') >= Len(revisions)
    /\ Len(paragraphs') >= Len(paragraphs)
    /\ Len(sentences') >= Len(sentences)
    /\ Len(words') >= Len(words)
    /\ \A q \in 1..Len(paragraphs) : paragraphs'[q].value = paragraphs[q].value
    /\ \A t \in 1..Len(sentences) : sentences'[t].value = sentences[t].value
    /\ \A w \in 1..Len(words) :
          /\ words'[w].value = words[w].value
          /\ words'[w].origin_rev_id = words[w].origin_rev_id
    /\ \A id \in DOMAIN revisions_by_id :
          id \in DOMAIN revisions_by_id' /\ revisions_by_id'[id] = revisions_by_id[id]
    /\ Len(revisions') > Len(revisions) =>
          /\ Len(revisions') = Len(revisions) + 1
          /\ Commits => revision_curr'.index = Len(revisions)
    /\ \A p \in AppendedTo(paragraphs, paragraphs') :
          /\ Len(revisions') = Len(revisions) + 1
          /\ p \in Range(revisions'[Len(revisions) + 1].paragraphs_ordered)
          /\ p \in Range(MapGet(revisions'[Len(revisions) + 1].paragraphs_by_hash,
                                paragraphs'[p + 1].value))
    /\ \A t \in AppendedTo(sentences, sentences') :
          \E q \in AppendedTo(paragraphs, paragraphs') :
              /\ t \in Range(paragraphs'[q + 1].sentences_ordered)
              /\ t \in Range(MapGet(paragraphs'[q + 1].sentences_by_hash,
                                    sentences'[t + 1].value))
    /\ \A w \in AppendedTo(words, words') :
          /\ words'[w + 1].origin_rev_id = Read.id
          /\ \E t \in AppendedTo(sentences, sentences') :
                w \in Range(sentences'[t + 1].words_ordered)

\* C32: the four arenas only grow at the end: no arena gets shorter, an
\* entry keeps its place and its text (a word also its origin), a new
\* entry is stored under the pointer equal to the length the arena had when
\* it was allocated, and every stored pointer denotes an entry of its arena
C32_AppendOnly == []PointersInBounds /\ [][ArenasGrowAtTheEnd]_vars

\* two committed revisions and one rejected during matching have each an
\* entry in the revisions arena, and the first paragraph is in the child
\* list of a later revision
C32_Witness ==
    /\ spam_ids # <<>>
    /\ Len(revisions) = 3
    /\ Len(paragraphs) >= 3
    /\ Len(ordered_revisions) = 2
    /\ \E r \in 2..Len(revisions) : 0 \in Range(revisions[r].paragraphs_ordered)

\* the by-hash map holds the pointers of the list, each under its own
\* value, as often as the list and in the order of the list, and nothing else
IndexOver(by_hash, ordered, arena) ==
    /\ DOMAIN by_hash = {arena[ordered[i] + 1].value : i \in 1..Len(ordered)}
    /\ \A k \in DOMAIN by_hash :
          by_hash[k] = SelectSeq(ordered, LAMBDA ptr : arena[ptr + 1].value = k)

\* the texts of the fragments of a child list, in the order of the list
ValuesOf(ordered, arena) == [i \in 1..Len(ordered) |-> arena[ordered[i] + 1].value]

ChildListsIndexed ==
    /\ \A r \in 1..Len(revisions) :
          IndexOver(revisions[r].paragraphs_by_hash, revisions[r].paragraphs_ordered, paragraphs)
    /\ \A q \in 1..Len(paragraphs) :
          /\ IndexOver(paragraphs[q].sentences_by_hash, paragraphs[q].sentences_ordered,
                       sentences)
          /\ ValuesOf(paragraphs[q].sentences_ordered, sentences)
                = split_into_parasents("sentence", paragraphs[q].value)
    /\ \A id \in DOMAIN revisions_by_id :
          ValuesOf(revisions[revisions_by_id[id].index + 1].paragraphs_ordered, paragraphs)
            = split_into_parasents("paragraph", revisions_by_id[id].text)

\* the revision a step allocates, committed or not, gets the paragraphs of
\* its text, and the child lists of the older revisions stay as they are
ChildListsOfStep ==
    /\ Len(revisions') > Len(revisions) =>
          ValuesOf(revisions'[Len(revisions') ].paragraphs_ordered, paragraphs')
            = split_into_parasents("paragraph", to_lowercase(Read.text.body))
    /\ \A r \in 1..Len(revisions) :
          revisions'[r].paragraphs_ordered = revisions[r].paragraphs_ordered
    /\ \A q \in 1..Len(paragraphs) :
          paragraphs'[q].sentences_ordered = paragraphs[q].sentences_ordered

\* C33: in every revision and every paragraph the by-hash map holds exactly
\* the pointers of the ordered child list, each under the key of its own
\* text, as often as in the list and in the same order; and the texts of the
\* ordered list are the fragments of the parent's text that are not empty
\* after trimming, one entry each, in the order of the text
C33_RedundantIndex == []ChildListsIndexed /\ [][ChildListsOfStep]_vars

\* a revision holds a paragraph twice (under one key of its map), once by
\* matching an older paragraph and once by allocating, and a revision
\* rejected during matching has left its entry in the arena
C33_Witness ==
    /\ spam_ids # <<>>
    /\ Len(revisions) > Len(ordered_revisions)
    /\ \E r \in 2..Len(revisions) :
          /\ Len(revisions[r].paragraphs_ordered) = 2
          /\ revisions[r].paragraphs_ordered[1] = 0
          /\ \E k \in DOMAIN revisions[r].paragraphs_by_hash :
                Len(revisions[r].paragraphs_by_hash[k]) = 2

\* C34: split_into_tokens_corasick returns the token list that
\* split_into_tokens_naive returns for the same text, whatever the text
C34_SameTokens == Len(returned) = 2 => returned[2] = returned[1]

\* the texts on which the two tokenizers differ hold the placeholder as a
\* token of its own; on every other text they agree
C34_SameTokensButPlaceholder ==
    Len(returned) = 2 =>
        \/ returned[2] = returned[1]
        \/ /\ Placeholder \in Range(returned[2])
           /\ returned[1] = [i \in 1..Len(returned[2]) |->
                                IF returned[2][i] = Placeholder THEN <<"|">> ELSE returned[2][i]]

DeletedAs(forms) ==
    {k \in 1..Len(argument.revisions) :
        argument.revisions[k].deleted /\ argument.revisions[k].form \in forms}

\* the revision with the ID is in the list of the page returned and its text
\* is Text::Deleted
ParsedAsDeleted(k) ==
    /\ returned[1].outcome = "Ok(Some(page))"
    /\ \E i \in 1..Len(returned[1].revisions) :
          returned[1].revisions[i].id = k /\ returned[1].revisions[i].text = Deleted

\* C36: parse_page gives every revision whose <text> element has the
\* attribute `deleted` the text Text::Deleted and keeps it in the revision
\* list of the page, whether the element is an empty element, a start and an
\* end tag without content, or has content
C36_DeletedText ==
    Len(returned) = 1 => \A k \in DeletedAs({"empty", "pair", "content"}) : ParsedAsDeleted(k)

\* of the three forms only the one with content is parsed as the claim
\* says, where parse_page returns a page at all: the empty element gives
\* Text::Normal(""), and the revision of the pair without content is left
\* out of the page or, in a strict build, ends the parsing with an error
C36_DeletedTextWithContent ==
    Len(returned) = 1 =>
        /\ \A k \in DeletedAs({"content"}) :
              returned[1].outcome = "Ok(Some(page))" => ParsedAsDeleted(k)
        /\ \A k \in DeletedAs({"empty"}) :
              returned[1].outcome = "Ok(Some(page))" =>
                  \E i \in 1..Len(returned[1].revisions) :
                      /\ returned[1].revisions[i].id = k
                      /\ returned[1].revisions[i].text = Normal(<<>>, 0)
        /\ \A k \in DeletedAs({"pair"}) :
              /\ argument.strict => returned[1].outcome = "Err(Eof)"
              /\ \A i \in 1..Len(returned[1].revisions) : returned[1].revisions[i].id # k

====
